---- MODULE Spec2Model ----
(***************************************************************************)
(* A model of the memory-hierarchy simulator: address decoding, the        *)
(* set-associative cache shared by the data cache, the L2 cache and the    *)
(* TLB, the page table with LRU frame reclamation, and the per-access      *)
(* orchestration of Simulator::simulate_access.                            *)
(*                                                                         *)
(* Option<T> is modelled as a sequence of length at most one:              *)
(* None is << >> and Some(x) is <<x>>.                                     *)
(***************************************************************************)
EXTENDS Integers, Sequences, FiniteSets, TLC

VARIABLES config, time, page_table, tlb, dc, l2, output, probe, panicked,
          served, bench

vars == <<config, time, page_table, tlb, dc, l2, output, probe, panicked, served, bench>>

----------------------------------------------------------------------------
(* Bounds of the model.                                                    *)

\* Accesses are simulated while the clock reads at most MaxTime.
MaxTime == 3

\* Trace addresses are drawn from 0..MaxAddr.
MaxAddr == 4

----------------------------------------------------------------------------
(* Option and unsigned-integer helpers.                                    *)

None == << >>

Some(x) == <<x>>

IsSome(o) == o # << >>

Unwrap(o) == o[1]

RECURSIVE Pow2(_)
Pow2(n) == IF n = 0 THEN 1 ELSE 2 * Pow2(n - 1)

\* u64::trailing_zeros
RECURSIVE trailing_zeros(_)
trailing_zeros(n) ==
    IF n = 0 THEN 64
    ELSE IF n % 2 = 1 THEN 0
    ELSE 1 + trailing_zeros(n \div 2)

\* a >> k
Shr(a, k) == a \div Pow2(k)

\* a << k; the addresses of the model stay far below the 64-bit width.
Shl(a, k) == a * Pow2(k)

\* a & b
RECURSIVE BitAnd(_, _)
BitAnd(a, b) ==
    IF a = 0 \/ b = 0 THEN 0
    ELSE 2 * BitAnd(a \div 2, b \div 2) + (IF a % 2 = 1 /\ b % 2 = 1 THEN 1 ELSE 0)

\* a | b
RECURSIVE BitOr(_, _)
BitOr(a, b) ==
    IF a = 0 THEN b
    ELSE IF b = 0 THEN a
    ELSE 2 * BitOr(a \div 2, b \div 2) + (IF a % 2 = 1 \/ b % 2 = 1 THEN 1 ELSE 0)

\* a & !m
RECURSIVE AndNot(_, _)
AndNot(a, m) ==
    IF a = 0 THEN 0
    ELSE 2 * AndNot(a \div 2, m \div 2) + (IF a % 2 = 1 /\ m % 2 = 0 THEN 1 ELSE 0)

\* (1 << bits) - 1
LowMask(bits) == Pow2(bits) - 1

----------------------------------------------------------------------------
(* trace.rs: operations and block addresses.                               *)

Read(address) == [kind |-> "R", address |-> address]

Write(address) == [kind |-> "W", address |-> address]

is_read(access) == access.kind = "R"

is_write(access) == access.kind = "W"

\* u64::from_str_radix(.., 10) over the digits of an address, most significant
\* first.
RECURSIVE DecimalValue(_)
DecimalValue(digits) ==
    IF digits = << >> THEN 0
    ELSE 10 * DecimalValue(SubSeq(digits, 1, Len(digits) - 1)) + digits[Len(digits)]

\* get_hexadecimal: u64::from_str_radix(.., 16) over the digits of the address
\* written after the colon of a trace line, most significant first.
RECURSIVE get_hexadecimal(_)
get_hexadecimal(digits) ==
    IF digits = << >> THEN 0
    ELSE 16 * get_hexadecimal(SubSeq(digits, 1, Len(digits) - 1)) + digits[Len(digits)]

\* Operation::from_buffer: the operation a trace line of the given access type
\* and address digits stands for.
from_buffer(access_type, digits) ==
    IF access_type = "R" THEN Read(get_hexadecimal(digits))
    ELSE Write(get_hexadecimal(digits))

\* BlockAddress::new keeping every bit above the offset in the index.
BlockAddressUnmasked(address, index_bits, offset_bits) ==
    [ tag         |-> Shr(address, index_bits + offset_bits),
      index       |-> Shr(address, offset_bits),
      offset      |-> BitAnd(address, LowMask(offset_bits)),
      index_bits  |-> index_bits,
      offset_bits |-> offset_bits ]

\* BlockAddress::new, the tag_bits field: the width left to the tag.
tag_bits(index_bits, offset_bits) == 32 - index_bits - offset_bits

\* BlockAddress::new
BlockAddress(address, index_bits, offset_bits) ==
    [ tag         |-> Shr(address, index_bits + offset_bits),
      index       |-> BitAnd(Shr(address, offset_bits), LowMask(index_bits)),
      offset      |-> BitAnd(address, LowMask(offset_bits)),
      index_bits  |-> index_bits,
      offset_bits |-> offset_bits ]

\* BlockAddress::get_address
get_address(a) ==
    BitOr(BitOr(Shl(a.tag, a.offset_bits + a.index_bits), Shl(a.index, a.offset_bits)),
          a.offset)

\* SimulatorConfig::get_page_size
get_page_size(cfg) == cfg.page_table.page_size

\* BlockAddress::new_data_cache_address
new_data_cache_address(address, cfg) ==
    BlockAddress(address,
                 trailing_zeros(cfg.data_cache.number_of_sets),
                 trailing_zeros(cfg.data_cache.line_size))

\* BlockAddress::new_l2_cache_address
new_l2_cache_address(address, cfg) ==
    BlockAddress(address,
                 trailing_zeros(cfg.l2_cache.number_of_sets),
                 trailing_zeros(cfg.l2_cache.line_size))

\* BlockAddress::new_tlb_address
new_tlb_address(address, cfg) ==
    BlockAddress(Shr(AndNot(address, get_page_size(cfg) - 1),
                     trailing_zeros(get_page_size(cfg))),
                 trailing_zeros(cfg.tlb.number_of_sets),
                 0)

----------------------------------------------------------------------------
(* cache.rs: blocks, sets, eviction, the generic cache.  A set is its      *)
(* vector of slots, a cache its vector of sets (1-based here).             *)

\* Block::new
NewBlock(tag, index, size, current_access_time) ==
    [ tag          |-> tag,
      index        |-> index,
      dirty        |-> FALSE,
      size         |-> size,
      last_access  |-> current_access_time,
      first_access |-> current_access_time ]

\* Block::write
BlockWrite(block, current_access_time) ==
    [block EXCEPT !.dirty = TRUE, !.last_access = current_access_time]

\* Block::read stamping the wrong field of the block.
BlockReadFirst(block, current_access_time) ==
    [block EXCEPT !.first_access = current_access_time]

\* Block::read marking the block as written.
BlockReadDirty(block, current_access_time) ==
    [block EXCEPT !.dirty = TRUE, !.last_access = current_access_time]

\* Block::read
BlockRead(block, current_access_time) ==
    [block EXCEPT !.last_access = current_access_time]

\* Set::new
NewSet(associativity) == [i \in 1..associativity |-> None]

\* Set::is_full
is_full(blocks) == \A i \in 1..Len(blocks) : IsSome(blocks[i])

\* Slots holding a block with the given tag.
SlotsWithTag(blocks, tag) ==
    {i \in 1..Len(blocks) : IsSome(blocks[i]) /\ Unwrap(blocks[i]).tag = tag}

Min(S) == CHOOSE x \in S : \A y \in S : x <= y

\* Set::get_tags
get_tags(blocks) ==
    LET present == SelectSeq(blocks, LAMBDA s : IsSome(s))
    IN  [i \in 1..Len(present) |-> Unwrap(present[i]).tag]

\* Set::get_block_with_tag / Set::get_block_with_addr: the first match.
get_block_with_tag(blocks, tag) ==
    IF SlotsWithTag(blocks, tag) = {} THEN None
    ELSE blocks[Min(SlotsWithTag(blocks, tag))]

\* Set::is_hit
set_is_hit(blocks, block_address) ==
    IsSome(get_block_with_tag(blocks, block_address.tag))

\* Set::evict_tag: clears the first slot holding the tag.
evict_tag(blocks, tag) ==
    IF SlotsWithTag(blocks, tag) = {}
    THEN [blocks |-> blocks, evicted |-> None]
    ELSE LET i == Min(SlotsWithTag(blocks, tag))
         IN  [blocks |-> [blocks EXCEPT ![i] = None], evicted |-> blocks[i]]

\* The scan giving way to a later block whose key is as small.
RECURSIVE OldestScanLast(_, _, _, _, _)
OldestScanLast(blocks, tags, k, oldest, policy) ==
    IF k > Len(tags) THEN oldest
    ELSE LET block == Unwrap(get_block_with_tag(blocks, tags[k]))
             older == IF policy = "FIFO"
                      THEN block.first_access <= oldest.first_access
                      ELSE block.last_access <= oldest.last_access
         IN  OldestScanLast(blocks, tags, k + 1, IF older THEN block ELSE oldest, policy)

\* The scan of EvictionPolicy::evict over tags[k..]: keeps the block seen so
\* far unless a later one has a strictly smaller key.
RECURSIVE OldestScan(_, _, _, _, _)
OldestScan(blocks, tags, k, oldest, policy) ==
    IF k > Len(tags) THEN oldest
    ELSE LET block == Unwrap(get_block_with_tag(blocks, tags[k]))
             older == IF policy = "FIFO"
                      THEN block.first_access < oldest.first_access
                      ELSE block.last_access < oldest.last_access
         IN  OldestScan(blocks, tags, k + 1, IF older THEN block ELSE oldest, policy)

\* The first block of the set, whatever the policy.
VictimFirst(policy, blocks, tags, rnd) == Unwrap(get_block_with_tag(blocks, tags[1]))

\* The block EvictionPolicy::evict chooses in a full set; rnd stands for
\* rand::random::<usize>().
Victim(policy, blocks, tags, rnd) ==
    IF policy = "Random"
    THEN Unwrap(get_block_with_tag(blocks, tags[(rnd % Len(tags)) + 1]))
    ELSE OldestScan(blocks, tags, 2, Unwrap(get_block_with_tag(blocks, tags[1])), policy)

\* EvictionPolicy::evict
PolicyEvict(policy, blocks, rnd) ==
    IF ~is_full(blocks) \/ Len(get_tags(blocks)) = 0
    THEN [blocks |-> blocks, evicted |-> None]
    ELSE LET Remove(victim) ==
                 [blocks |-> evict_tag(blocks, victim.tag).blocks,
                  evicted |-> Some(victim)]
         IN  Remove(Victim(policy, blocks, get_tags(blocks), rnd))

\* Slots that are empty.
EmptySlots(blocks) == {i \in 1..Len(blocks) : ~IsSome(blocks[i])}

\* A fill that pushes the new block instead of taking an empty slot.
FillAppend(blocks, block) == Append(blocks, Some(block))

\* The fill of Set::allocate_block: the first empty slot takes the new block.
FillFirstEmpty(blocks, block) ==
    IF EmptySlots(blocks) = {} THEN blocks
    ELSE [blocks EXCEPT ![Min(EmptySlots(blocks))] = Some(block)]

\* Set::allocate_block
allocate_block(blocks, block, current_access_time, block_size, policy) ==
    LET Fill(ev) ==
            [blocks |-> FillFirstEmpty(ev.blocks,
                            NewBlock(block.tag, block.index, block_size,
                                     current_access_time)),
             evicted |-> ev.evicted]
    IN  Fill(IF is_full(blocks) THEN PolicyEvict(policy, blocks, 0)
             ELSE [blocks |-> blocks, evicted |-> None])

\* Set::try_write
try_write(blocks, block_address, current_access_time) ==
    IF SlotsWithTag(blocks, block_address.tag) = {}
    THEN [blocks |-> blocks, hit |-> FALSE]
    ELSE LET i == Min(SlotsWithTag(blocks, block_address.tag))
         IN  [blocks |-> [blocks EXCEPT ![i] =
                             Some(BlockWrite(Unwrap(blocks[i]), current_access_time))],
              hit |-> TRUE]

\* Set::try_read
try_read(blocks, block_address, current_access_time) ==
    IF SlotsWithTag(blocks, block_address.tag) = {}
    THEN [blocks |-> blocks, hit |-> FALSE]
    ELSE LET i == Min(SlotsWithTag(blocks, block_address.tag))
         IN  [blocks |-> [blocks EXCEPT ![i] =
                             Some(BlockRead(Unwrap(blocks[i]), current_access_time))],
              hit |-> TRUE]

\* Set::write_and_allocate; ok is the assertion that the retry hits.
write_and_allocate(blocks, block_address, current_access_time, block_size, policy) ==
    LET Retry(al) ==
            LET Done(again) ==
                    [blocks |-> again.blocks, evicted |-> al.evicted, ok |-> again.hit]
            IN  Done(try_write(al.blocks, block_address, current_access_time))
        Start(first) ==
            IF first.hit
            THEN [blocks |-> first.blocks, evicted |-> None, ok |-> TRUE]
            ELSE Retry(allocate_block(blocks, block_address, current_access_time,
                                      block_size, policy))
    IN  Start(try_write(blocks, block_address, current_access_time))

\* read_and_allocate without the first try: the block is allocated whether or
\* not the set holds its tag.
allocate_and_read(blocks, block_address, current_access_time, block_size, policy) ==
    LET Retry(al) ==
            LET Done(again) ==
                    [blocks |-> again.blocks, evicted |-> al.evicted, ok |-> again.hit]
            IN  Done(try_read(al.blocks, block_address, current_access_time))
    IN  Retry(allocate_block(blocks, block_address, current_access_time,
                             block_size, policy))

\* Set::read_and_allocate; ok is the assertion that the retry hits.
read_and_allocate(blocks, block_address, current_access_time, block_size, policy) ==
    LET Retry(al) ==
            LET Done(again) ==
                    [blocks |-> again.blocks, evicted |-> al.evicted, ok |-> again.hit]
            IN  Done(try_read(al.blocks, block_address, current_access_time))
        Start(first) ==
            IF first.hit
            THEN [blocks |-> first.blocks, evicted |-> None, ok |-> TRUE]
            ELSE Retry(allocate_block(blocks, block_address, current_access_time,
                                      block_size, policy))
    IN  Start(try_read(blocks, block_address, current_access_time))

\* is_read_and_allocate_hit looking for the line after the allocation.
is_hit_after_read_and_allocate(blocks, block_address, current_access_time, block_size, policy) ==
    LET Done(r) ==
            [blocks |-> r.blocks, hit |-> set_is_hit(r.blocks, block_address), ok |-> r.ok]
    IN  Done(read_and_allocate(blocks, block_address, current_access_time,
                               block_size, policy))

\* Set::is_write_and_allocate_hit
is_write_and_allocate_hit(blocks, block_address, current_access_time, block_size, policy) ==
    LET Done(r) ==
            [blocks |-> r.blocks, hit |-> set_is_hit(blocks, block_address), ok |-> r.ok]
    IN  Done(write_and_allocate(blocks, block_address, current_access_time,
                                block_size, policy))

\* Set::is_read_and_allocate_hit
is_read_and_allocate_hit(blocks, block_address, current_access_time, block_size, policy) ==
    LET Done(r) ==
            [blocks |-> r.blocks, hit |-> set_is_hit(blocks, block_address), ok |-> r.ok]
    IN  Done(read_and_allocate(blocks, block_address, current_access_time,
                               block_size, policy))

\* Cache::new
NewCache(sets, block_size, associativity, evict_policy) ==
    [ sets          |-> [i \in 1..sets |-> NewSet(associativity)],
      block_size    |-> block_size,
      associativity |-> associativity,
      evict_policy  |-> evict_policy ]

\* The set a block address selects: self.sets[address.index as usize].
SetOf(cache, address) == cache.sets[address.index + 1]

\* Indexing self.sets out of range panics.
InRange(cache, address) == address.index + 1 <= Len(cache.sets)

\* The cache with the addressed set replaced by the outcome r of a set operation.
WithSet(cache, address, r) ==
    [cache |-> [cache EXCEPT !.sets[address.index + 1] = r.blocks],
     hit |-> r.hit, ok |-> r.ok]

\* Cache::is_read_and_allocate_hit
CacheReadAllocate(cache, address, current_access_time) ==
    WithSet(cache, address,
            is_read_and_allocate_hit(SetOf(cache, address), address,
                current_access_time, cache.block_size, cache.evict_policy))

\* Cache::is_write_and_allocate_hit
CacheWriteAllocate(cache, address, current_access_time) ==
    WithSet(cache, address,
            is_write_and_allocate_hit(SetOf(cache, address), address,
                current_access_time, cache.block_size, cache.evict_policy))

\* Cache::try_write
CacheTryWrite(cache, address, current_access_time) ==
    LET Done(r) ==
            [cache |-> [cache EXCEPT !.sets[address.index + 1] = r.blocks],
             hit |-> r.hit, ok |-> TRUE]
    IN  Done(try_write(SetOf(cache, address), address, current_access_time))

\* Cache::invalidate: evicts the addressed line from its set, if resident.
CacheInvalidate(cache, address) ==
    LET Done(r) ==
            [cache |-> [cache EXCEPT !.sets[address.index + 1] = r.blocks],
             evicted |-> r.evicted]
    IN  Done(evict_tag(SetOf(cache, address), address.tag))

----------------------------------------------------------------------------
(* pagetable.rs.  entries[vpn + 1] is the entry of virtual page vpn and    *)
(* physical_page_bookkeeping[p + 1] the last access time of frame p.       *)

\* PageTable::new
NewPageTable(virtual_pages, physical_pages, page_size) ==
    [ virtual_pages             |-> virtual_pages,
      physical_pages            |-> physical_pages,
      page_size                 |-> page_size,
      entries                   |-> [i \in 1..virtual_pages |-> None],
      allocated_physical_pages  |-> 0,
      physical_page_bookkeeping |-> [i \in 1..physical_pages |-> 0] ]

\* PageTableEntry::new
NewPageTableEntry(physical_address, virtual_address, page_size, current_access_time) ==
    [ physical_address |-> physical_address,
      virtual_address  |-> virtual_address,
      page_size        |-> page_size,
      last_access_time |-> current_access_time ]

\* PageTableEntry::get_physical_address
entry_physical_address(e) == AndNot(e.physical_address, e.page_size - 1)

\* PageTableEntry::get_virtual_address
entry_virtual_address(e) == e.virtual_address

\* PageTableEntry::get_physical_page_number
entry_physical_page_number(e) ==
    Shr(AndNot(e.physical_address, e.page_size - 1), trailing_zeros(e.page_size))

\* PageTableEntry::get_virtual_page_number
entry_virtual_page_number(e) ==
    Shr(AndNot(e.virtual_address, e.page_size - 1), trailing_zeros(e.page_size))

\* PageTable::get_offset_bits
pt_offset_bits(pt) == trailing_zeros(pt.page_size)

\* get_index_from_virtual_address wrapping the page number into the table.
wrapped_index(pt, virtual_address) ==
    Shr(virtual_address, pt_offset_bits(pt)) % pt.virtual_pages

\* PageTable::get_index_from_virtual_address
get_index_from_virtual_address(pt, virtual_address) ==
    Shr(virtual_address, pt_offset_bits(pt))

\* PageTable::get_offset
get_offset(pt, address) == BitAnd(address, pt.page_size - 1)

\* get_physical_page_number keeping the low bits of the address.
page_number_from_offset(pt, physical_address) ==
    BitAnd(physical_address, pt.page_size - 1)

\* PageTable::get_physical_page_number
get_physical_page_number(pt, physical_address) ==
    Shr(physical_address, pt_offset_bits(pt))

\* PageTable::get_entry
get_entry(pt, virtual_address) ==
    LET index == get_index_from_virtual_address(pt, virtual_address)
    IN  IF index < Len(pt.entries) THEN pt.entries[index + 1] ELSE None

\* PageTable::get_entries: the entries that are present, in page order.
get_entries(pt) ==
    LET present == SelectSeq(pt.entries, LAMBDA e : IsSome(e))
    IN  [i \in 1..Len(present) |-> Unwrap(present[i])]

\* PageTable::is_page_number_free
is_page_number_free(pt, physical_page_number) ==
    pt.physical_page_bookkeeping[physical_page_number + 1] = 0

\* PageTable::set_last_access_time_page_number
set_last_access_time_page_number(pt, physical_page_number, current_access_time) ==
    IF physical_page_number < Len(pt.physical_page_bookkeeping)
    THEN [pt EXCEPT !.physical_page_bookkeeping[physical_page_number + 1] =
                        current_access_time]
    ELSE pt

\* An invalidation that leaves the entries of the frame in place.
KeepEntries(pt, physical_page_number) == pt

\* PageTable::invalidate_page_number
invalidate_page_number(pt, physical_page_number) ==
    [pt EXCEPT !.entries =
        [i \in 1..Len(pt.entries) |->
            IF IsSome(pt.entries[i])
               /\ entry_physical_page_number(Unwrap(pt.entries[i])) = physical_page_number
            THEN None
            ELSE pt.entries[i]]]

\* mark_page_number_free leaving the bookkeeping time of the frame as it is.
unmap_page_number(pt, physical_page_number) ==
    invalidate_page_number(pt, physical_page_number)

\* PageTable::mark_page_number_free
mark_page_number_free(pt, physical_page_number) ==
    invalidate_page_number(
        set_last_access_time_page_number(pt, physical_page_number, 0),
        physical_page_number)

\* The loop of PageTable::evict from frame page_number on: stops at the first
\* free frame, otherwise keeps the first frame with the least access time.
RECURSIVE EvictScan(_, _, _, _)
EvictScan(pt, page_number, min_access_time, min_access_time_page_number) ==
    IF page_number >= Len(pt.physical_page_bookkeeping)
    THEN min_access_time_page_number
    ELSE IF is_page_number_free(pt, page_number)
    THEN page_number
    ELSE LET last_access == pt.physical_page_bookkeeping[page_number + 1]
         IN  IF last_access < min_access_time
             THEN EvictScan(pt, page_number + 1, last_access, page_number)
             ELSE EvictScan(pt, page_number + 1, min_access_time,
                            min_access_time_page_number)

\* u64::MAX, as the largest integer of the model: above every access time.
U64Max == 2147483647

\* Reclaiming frame 0 whatever the bookkeeping says.
EvictFirstFrame(pt) == 0

\* The frame PageTable::evict reclaims.
EvictVictim(pt) == EvictScan(pt, 0, U64Max, 0)

\* PageTable::evict
pt_evict(pt) ==
    LET freed == mark_page_number_free(pt, EvictVictim(pt))
    IN  [freed EXCEPT !.allocated_physical_pages = pt.allocated_physical_pages - 1]

\* Frames whose bookkeeping time is 0.
FreeFrames(pt) ==
    {p \in 0..(Len(pt.physical_page_bookkeeping) - 1) : is_page_number_free(pt, p)}

\* mark_physical_access leaving the bookkeeping as it is.
leave_physical_access(pt, physical_address, current_access_time) ==
    [pt |-> pt, panic |-> FALSE]

\* PageTable::mark_physical_access; indexing the bookkeeping out of range panics.
mark_physical_access(pt, physical_address, current_access_time) ==
    LET physical_page_number == get_physical_page_number(pt, physical_address)
    IN  IF physical_page_number < Len(pt.physical_page_bookkeeping)
        THEN [pt |-> [pt EXCEPT !.physical_page_bookkeeping[physical_page_number + 1] =
                            IF current_access_time > 1 THEN current_access_time ELSE 1],
              panic |-> FALSE]
        ELSE [pt |-> pt, panic |-> TRUE]

\* PageTable::mark_virtual_access
mark_virtual_access(pt, virtual_address, current_access_time) ==
    LET index == get_index_from_virtual_address(pt, virtual_address)
    IN  IF index < Len(pt.entries) /\ IsSome(pt.entries[index + 1])
        THEN LET entry == [Unwrap(pt.entries[index + 1]) EXCEPT
                              !.last_access_time = current_access_time]
             IN  mark_physical_access([pt EXCEPT !.entries[index + 1] = Some(entry)],
                                      entry_physical_address(entry), current_access_time)
        ELSE [pt |-> pt, panic |-> FALSE]

\* Whether PageTable::allocate_physical_page evicts first.
TableFull(allocated_physical_pages, physical_pages) ==
    allocated_physical_pages >= physical_pages

\* A frame choice that skips the search for a free frame.
ChooseCounted(room, allocated_before) == allocated_before

\* The frame allocate_physical_page settles on: the first free one, or else
\* the count of allocated pages it started from.
ChooseFrame(room, allocated_before) ==
    IF FreeFrames(room) = {} THEN allocated_before ELSE Min(FreeFrames(room))

\* The tail of allocate_physical_page: install the entry and mark it accessed.
InstallEntry(room, index, physical_page_number, virtual_address, current_access_time) ==
    LET Done(marked) ==
            [pt |-> marked.pt, page |-> Some(physical_page_number),
             panic |-> marked.panic]
    IN  Done(mark_virtual_access(
                 [room EXCEPT !.entries[index + 1] =
                     Some(NewPageTableEntry(
                              Shl(physical_page_number, pt_offset_bits(room)),
                              virtual_address, room.page_size, current_access_time))],
                 virtual_address, current_access_time))

\* PageTable::allocate_physical_page
allocate_physical_page(pt, virtual_address, current_access_time) ==
    IF get_index_from_virtual_address(pt, virtual_address) >= Len(pt.entries)
    THEN [pt |-> pt, page |-> None, panic |-> FALSE]
    ELSE LET WithRoom(room) ==
                 InstallEntry(room, get_index_from_virtual_address(pt, virtual_address),
                              ChooseFrame(room, pt.allocated_physical_pages),
                              virtual_address, current_access_time)
             Counted(counted) ==
                 WithRoom(IF TableFull(counted.allocated_physical_pages,
                                       pt.physical_pages)
                          THEN pt_evict(counted)
                          ELSE counted)
         IN  Counted([pt EXCEPT !.allocated_physical_pages = @ + 1])

\* The tail of PageTable::translate once the entry exists: refresh the entry
\* and the frame, and form the physical address.
Refresh(pt, index, virtual_address, current_access_time, is_hit) ==
    LET Formed(entry, physical_address) ==
            LET Done(marked) ==
                    [pt |-> marked.pt,
                     result |-> Some([physical_address |-> physical_address,
                                      hit |-> is_hit]),
                     panic |-> marked.panic]
            IN  Done(mark_physical_access(
                         [pt EXCEPT !.entries[index + 1] = Some(entry)],
                         physical_address, current_access_time))
        Touched(entry) ==
            Formed(entry, BitOr(entry_physical_address(entry),
                                get_offset(pt, virtual_address)))
    IN  Touched([Unwrap(pt.entries[index + 1]) EXCEPT
                    !.last_access_time = current_access_time])

\* PageTable::translate; result is None for an out-of-range virtual page.
translate(pt, virtual_address, current_access_time) ==
    LET Allocated(al) ==
            IF al.panic
            THEN [pt |-> al.pt, result |-> None, panic |-> TRUE]
            ELSE IF ~IsSome(get_entry(al.pt, virtual_address))
            THEN [pt |-> al.pt, result |-> None, panic |-> FALSE]
            ELSE Refresh(al.pt, get_index_from_virtual_address(pt, virtual_address),
                         virtual_address, current_access_time,
                         IsSome(get_entry(pt, virtual_address)))
    IN  Allocated(IF IsSome(get_entry(pt, virtual_address))
                  THEN [pt |-> pt, page |-> None, panic |-> FALSE]
                  ELSE allocate_physical_page(pt, virtual_address, current_access_time))

----------------------------------------------------------------------------
(* dc.rs, tlb.rs and the L2 cache, which wraps a cache as the data cache   *)
(* does.                                                                   *)

\* DataCache::new
NewDataCache(sets, block_size, associativity, evict_policy, is_write_allocate) ==
    [ cache              |-> NewCache(sets, block_size, associativity, evict_policy),
      is_write_allocate  |-> is_write_allocate,
      total_read_misses  |-> 0,
      total_write_misses |-> 0,
      total_reads        |-> 0,
      total_writes       |-> 0 ]

\* An eviction policy that draws its victim at random.
random_eviction_policy == "Random"

\* DataCacheConfig::get_eviction_policy, L2CacheConfig::get_eviction_policy,
\* TLBConfig::get_eviction_policy
get_eviction_policy == "LRU"

\* A data cache that allocates on no write miss.
never_write_allocate(section) == FALSE

\* A data cache that allocates on every write miss.
always_write_allocate(section) == TRUE

\* DataCacheConfig::is_write_allocate / L2CacheConfig::is_write_allocate
is_write_allocate(section) == ~section.write_through

\* DataCacheConfig::is_write_back / L2CacheConfig::is_write_back
is_write_back(section) == ~section.write_through

\* DataCacheConfig::is_write_through / L2CacheConfig::is_write_through
is_write_through(section) == section.write_through

\* DataCache::new_from_config
DataCacheFromConfig(cfg) ==
    NewDataCache(cfg.data_cache.number_of_sets, cfg.data_cache.line_size,
                 cfg.data_cache.set_size, get_eviction_policy,
                 is_write_allocate(cfg.data_cache))

\* L2Cache::new_from_config
L2CacheFromConfig(cfg) ==
    NewDataCache(cfg.l2_cache.number_of_sets, cfg.l2_cache.line_size,
                 cfg.l2_cache.set_size, get_eviction_policy,
                 is_write_allocate(cfg.l2_cache))

\* TLBCache::new_from_config
TLBFromConfig(cfg) ==
    [cache |-> NewCache(cfg.tlb.number_of_sets, get_page_size(cfg),
                        cfg.tlb.set_size, get_eviction_policy)]

\* DataCache::write
DataCacheWrite(d, address, current_access_time) ==
    LET Done(r) ==
            [d |-> [d EXCEPT !.cache = r.cache,
                             !.total_writes = @ + 1,
                             !.total_write_misses = IF r.hit THEN @ ELSE @ + 1],
             hit |-> r.hit, ok |-> r.ok]
    IN  Done(IF d.is_write_allocate
             THEN CacheWriteAllocate(d.cache, address, current_access_time)
             ELSE CacheTryWrite(d.cache, address, current_access_time))

\* DataCache::read
DataCacheRead(d, address, current_access_time) ==
    LET Done(r) ==
            [d |-> [d EXCEPT !.cache = r.cache,
                             !.total_reads = @ + 1,
                             !.total_read_misses = IF r.hit THEN @ ELSE @ + 1],
             hit |-> r.hit, ok |-> r.ok]
    IN  Done(CacheReadAllocate(d.cache, address, current_access_time))

\* DataCache::access; indexing a set that does not exist panics.
DataCacheAccess(d, isread, address, current_access_time) ==
    IF ~InRange(d.cache, address) THEN [d |-> d, hit |-> FALSE, ok |-> FALSE]
    ELSE IF isread THEN DataCacheRead(d, address, current_access_time)
    ELSE DataCacheWrite(d, address, current_access_time)

\* L2Cache::access
L2CacheAccess(d, isread, address, current_access_time) ==
    DataCacheAccess(d, isread, address, current_access_time)

\* TLBCache::translate
TLBTranslate(t, address, current_access_time) ==
    IF ~InRange(t.cache, address) THEN [tlb |-> t, hit |-> FALSE, ok |-> FALSE]
    ELSE LET Done(r) == [tlb |-> [t EXCEPT !.cache = r.cache], hit |-> r.hit, ok |-> r.ok]
         IN  Done(CacheReadAllocate(t.cache, address, current_access_time))

\* The loop of DataCache::invalidate_page from block number block on.
RECURSIVE InvalidateBlocks(_, _, _, _, _, _, _)
InvalidateBlocks(cache, physical_address, block, number_of_blocks, block_size, index_bits, offset_bits) ==
    IF block >= number_of_blocks THEN [cache |-> cache, count |-> 0, ok |-> TRUE]
    ELSE LET Counted(r, rest) ==
                 [cache |-> rest.cache,
                  count |-> rest.count + (IF IsSome(r.evicted) THEN 1 ELSE 0),
                  ok |-> rest.ok]
             Invalidated(r) ==
                 Counted(r, InvalidateBlocks(r.cache, physical_address, block + 1,
                                number_of_blocks, block_size, index_bits, offset_bits))
             At(block_address) ==
                 IF ~InRange(cache, block_address)
                 THEN [cache |-> cache, count |-> 0, ok |-> FALSE]
                 ELSE Invalidated(CacheInvalidate(cache, block_address))
         IN  At(BlockAddress(physical_address + block * block_size,
                             index_bits, offset_bits))

\* The body of DataCache::invalidate_page for a cache wrapper d of the given
\* geometry; ok is its assertion that the blocks tile the page.
InvalidatePageOf(d, physical_address, page_size, block_size, number_of_sets) ==
    IF (page_size \div block_size) * block_size # page_size
    THEN [d |-> d, count |-> 0, ok |-> FALSE]
    ELSE LET Done(r) ==
                 [d |-> [d EXCEPT !.cache = r.cache], count |-> r.count, ok |-> r.ok]
         IN  Done(InvalidateBlocks(d.cache, physical_address, 0,
                      page_size \div block_size, block_size,
                      trailing_zeros(number_of_sets), trailing_zeros(block_size)))

\* invalidate_page leaving every line of the page in the cache.
KeepPage(d, physical_address, cfg) == [d |-> d, count |-> 0, ok |-> TRUE]

\* DataCache::invalidate_page
DataCacheInvalidatePage(d, physical_address, cfg) ==
    InvalidatePageOf(d, physical_address, get_page_size(cfg),
                     cfg.data_cache.line_size, cfg.data_cache.number_of_sets)

\* L2Cache::invalidate_page
L2CacheInvalidatePage(d, physical_address, cfg) ==
    InvalidatePageOf(d, physical_address, get_page_size(cfg),
                     cfg.l2_cache.line_size, cfg.l2_cache.number_of_sets)

\* The loop of TLBCache::invalidate_page over entries[k..].
RECURSIVE TLBInvalidateEntries(_, _, _, _, _)
TLBInvalidateEntries(cache, entries, k, physical_address, cfg) ==
    IF k > Len(entries) THEN [cache |-> cache, blocks |-> << >>]
    ELSE IF entry_physical_address(entries[k]) = physical_address
    THEN LET Collected(r, rest) ==
                 [cache |-> rest.cache, blocks |-> r.evicted \o rest.blocks]
             Invalidated(r) ==
                 Collected(r, TLBInvalidateEntries(r.cache, entries, k + 1,
                                                   physical_address, cfg))
         IN  Invalidated(CacheInvalidate(cache,
                 new_tlb_address(entry_virtual_address(entries[k]), cfg)))
    ELSE TLBInvalidateEntries(cache, entries, k + 1, physical_address, cfg)

\* TLBCache::invalidate_page
TLBInvalidatePage(t, physical_address, pt, cfg) ==
    LET Done(r) == [tlb |-> [t EXCEPT !.cache = r.cache], blocks |-> r.blocks]
    IN  Done(TLBInvalidateEntries(t.cache, get_entries(pt), 1, physical_address, cfg))

----------------------------------------------------------------------------
(* output.rs: the statistics accumulator.                                  *)

\* SimulatorOutput::empty
EmptyOutput ==
    [ accesses         |-> << >>,
      tlb_hits         |-> 0,
      tlb_misses       |-> 0,
      pt_hits          |-> 0,
      pt_faults        |-> 0,
      dc_hits          |-> 0,
      dc_misses        |-> 0,
      l2_hits          |-> 0,
      l2_misses        |-> 0,
      total_reads      |-> 0,
      total_writes     |-> 0,
      main_memory_refs |-> 0,
      page_table_refs  |-> 0,
      disk_refs        |-> 0 ]

\* add_access putting the record before the earlier ones.
add_access_front(out, record) ==
    [out EXCEPT !.total_reads  = IF is_read(record.access) THEN @ + 1 ELSE @,
                !.total_writes = IF is_read(record.access) THEN @ ELSE @ + 1,
                !.accesses     = <<record>> \o @]

\* SimulatorOutput::add_access
add_access(out, record) ==
    [out EXCEPT !.total_reads  = IF is_read(record.access) THEN @ + 1 ELSE @,
                !.total_writes = IF is_read(record.access) THEN @ ELSE @ + 1,
                !.accesses     = Append(@, record)]

\* get_main_memory_accesses charging every write one reference.
main_memory_accesses_write_through(record, cfg) ==
    IF is_read(record.access)
    THEN IF record.dc_hit \/ record.l2_hit = Some(TRUE) THEN 0 ELSE 1
    ELSE 1

\* get_main_memory_accesses looking at L1 alone.
main_memory_accesses_past_l1(record, cfg) == IF record.dc_hit THEN 0 ELSE 1

\* AccessOutput::get_main_memory_accesses
get_main_memory_accesses(record, cfg) ==
    IF is_read(record.access)
    THEN IF record.dc_hit THEN 0
         ELSE IF record.l2_hit = Some(TRUE) THEN 0
         ELSE 1
    ELSE IF record.dc_hit
         THEN IF is_write_through(cfg.data_cache) /\ is_write_through(cfg.l2_cache) THEN 1
              ELSE IF is_write_through(cfg.data_cache) /\ is_write_back(cfg.l2_cache) THEN 0
              ELSE IF is_write_back(cfg.data_cache) /\ is_write_through(cfg.l2_cache) THEN 1
              ELSE IF is_write_back(cfg.data_cache) /\ is_write_back(cfg.l2_cache) THEN 0
              ELSE 1
         ELSE IF record.l2_hit = Some(TRUE)
              THEN IF is_write_through(cfg.l2_cache) THEN 1 ELSE 0
              ELSE 1

\* The sum of get_main_memory_accesses over the first n records.
RECURSIVE MainMemoryAccessesUpTo(_, _, _)
MainMemoryAccessesUpTo(accesses, cfg, n) ==
    IF n = 0 THEN 0
    ELSE MainMemoryAccessesUpTo(accesses, cfg, n - 1)
           + get_main_memory_accesses(accesses[n], cfg)

\* Display for SimulatorOutput: the number printed as "main memory refs".
DisplayMainMemoryRefs(out, cfg) ==
    out.main_memory_refs + MainMemoryAccessesUpTo(out.accesses, cfg, Len(out.accesses))

\* Display for SimulatorOutput: the number printed as "page table refs".
DisplayPageTableRefs(out) == out.pt_hits + out.pt_faults

\* Display for SimulatorOutput: the number printed as "disk refs".
DisplayDiskRefs(out) == out.pt_faults

\* SimulatorOutput::add_tlb_access
add_tlb_access(out, cfg, hit) ==
    IF ~cfg.tlb_enabled THEN out
    ELSE IF hit THEN [out EXCEPT !.tlb_hits = @ + 1]
    ELSE [out EXCEPT !.tlb_misses = @ + 1]

\* add_page_table_access counting hits only.
add_page_table_hit_only(out, cfg, hit) ==
    IF ~cfg.virtual_addresses_enabled THEN out
    ELSE IF hit THEN [out EXCEPT !.pt_hits = @ + 1]
    ELSE out

\* SimulatorOutput::add_page_table_access
add_page_table_access(out, cfg, hit) ==
    IF ~cfg.virtual_addresses_enabled THEN out
    ELSE IF hit THEN [out EXCEPT !.pt_hits = @ + 1]
    ELSE [out EXCEPT !.pt_faults = @ + 1]

\* add_dc_access counting hits only.
add_dc_hit_only(out, hit) ==
    IF hit THEN [out EXCEPT !.dc_hits = @ + 1] ELSE out

\* SimulatorOutput::add_dc_access
add_dc_access(out, hit) ==
    IF hit THEN [out EXCEPT !.dc_hits = @ + 1]
    ELSE [out EXCEPT !.dc_misses = @ + 1]

\* SimulatorOutput::add_l2_access
add_l2_access(out, cfg, hit) ==
    IF ~cfg.l2_cache_enabled THEN out
    ELSE IF hit THEN [out EXCEPT !.l2_hits = @ + 1]
    ELSE [out EXCEPT !.l2_misses = @ + 1]

----------------------------------------------------------------------------
(* simulator.rs: one access.                                               *)

\* A reported hit that trusts the TLB lookup alone.
RawTlbHit(tlb_raw_hit, is_page_table_hit) == tlb_raw_hit

\* The hit reported for the TLB: is_tlb_hit && is_page_table_hit.
EffectiveTlbHit(tlb_raw_hit, is_page_table_hit) == tlb_raw_hit /\ is_page_table_hit

\* The page-fault condition.
IsPageFault(cfg, is_tlb_hit, is_page_table_hit) ==
    cfg.virtual_addresses_enabled /\ ~is_tlb_hit /\ ~is_page_table_hit

\* An L2 decision that forwards misses only.
DrivesL2OnMiss(cfg, dc_hit, access) == ~dc_hit

\* An L2 decision that forwards every access.
DrivesL2Always(cfg, dc_hit, access) == TRUE

\* Whether the access reaches l2.access, by the four policy branches.
DrivesL2(cfg, dc_hit, access) ==
    IF is_write_through(cfg.data_cache) /\ is_write_through(cfg.l2_cache)
    THEN ~dc_hit \/ is_write(access)
    ELSE IF is_write_through(cfg.data_cache) /\ is_write_back(cfg.l2_cache)
    THEN ~dc_hit \/ (dc_hit /\ is_write(access))
    ELSE IF is_write_back(cfg.data_cache) /\ is_write_through(cfg.l2_cache)
    THEN IF is_write(access) THEN TRUE ELSE ~dc_hit
    ELSE ~dc_hit \/ is_write(access)

\* A record that shows every L2 result.
SurfacesAlways(cfg, dc_hit, access) == TRUE

\* Whether an access that reached L2 records its result in l2_hit.
SurfacesL2Hit(cfg, dc_hit, access) ==
    IF is_write_through(cfg.data_cache) THEN TRUE ELSE ~dc_hit

\* Whether the access repeats its L1 access after L2 (write-back over write-back).
RepeatsL1(cfg) == is_write_back(cfg.data_cache) /\ is_write_back(cfg.l2_cache)

\* The page number closure of simulate_access.
to_page_number(cfg, addr) ==
    Shr(AndNot(addr, get_page_size(cfg) - 1), trailing_zeros(get_page_size(cfg)))

\* The outcome of translation once the page table has answered; unwrapping
\* an absent answer panics.
Translated(tlb1, tlb_address, tlb_raw_hit, pr) ==
    IF pr.panic \/ ~IsSome(pr.result)
    THEN [panic |-> TRUE]
    ELSE [panic |-> FALSE,
          tlb |-> tlb1,
          page_table |-> Some(pr.pt),
          tlb_address |-> tlb_address,
          tlb_raw_hit |-> tlb_raw_hit,
          physical_address |-> Unwrap(pr.result).physical_address,
          is_page_table_hit |-> Unwrap(pr.result).hit,
          is_tlb_hit |-> EffectiveTlbHit(tlb_raw_hit, Unwrap(pr.result).hit)]

\* Address translation: the match on (tlb, page_table).
Translation(s, access) ==
    IF IsSome(s.tlb) /\ IsSome(s.page_table)
    THEN LET Looked(addr, tr) ==
                 IF ~tr.ok THEN [panic |-> TRUE]
                 ELSE Translated(Some(tr.tlb), Some(addr), tr.hit,
                          translate(Unwrap(s.page_table), access.address, s.time))
             Keyed(addr) == Looked(addr, TLBTranslate(Unwrap(s.tlb), addr, s.time))
         IN  Keyed(new_tlb_address(access.address, s.config))
    ELSE IF IsSome(s.page_table)
    THEN Translated(s.tlb, None, FALSE,
                    translate(Unwrap(s.page_table), access.address, s.time))
    ELSE [panic |-> FALSE,
          tlb |-> s.tlb,
          page_table |-> s.page_table,
          tlb_address |-> None,
          tlb_raw_hit |-> FALSE,
          physical_address |-> access.address,
          is_page_table_hit |-> FALSE,
          is_tlb_hit |-> FALSE]

\* The statistics of translation: the TLB's, then the page table's.
TranslationStats(s, x) ==
    LET Walked(out0) ==
            IF ~x.is_tlb_hit /\ s.config.virtual_addresses_enabled
            THEN add_page_table_access(out0, s.config, x.is_page_table_hit)
            ELSE out0
    IN  Walked(IF s.config.tlb_enabled
               THEN add_tlb_access(s.output, s.config, x.is_tlb_hit)
               ELSE s.output)

\* The address handed to the page invalidators on a fault.
InvalidationAddress(cfg, physical_address) == physical_address

\* Page-fault propagation: the TLB, then the data cache, then L2.
Propagation(s, x) ==
    IF ~IsPageFault(s.config, x.is_tlb_hit, x.is_page_table_hit)
    THEN [panic |-> FALSE, is_page_fault |-> FALSE,
          tlb |-> x.tlb, dc |-> s.dc, l2 |-> s.l2]
    ELSE LET Done(tlb1, di, li) ==
                 IF ~di.ok \/ ~li.ok
                 THEN [panic |-> TRUE]
                 ELSE [panic |-> FALSE, is_page_fault |-> TRUE,
                       tlb |-> tlb1, dc |-> di.d, l2 |-> li.l2]
             Second(li) == [l2 |-> Some(li.d), ok |-> li.ok]
             At(target) ==
                 Done(IF IsSome(x.tlb) /\ IsSome(x.page_table)
                      THEN Some(TLBInvalidatePage(Unwrap(x.tlb), target,
                                    Unwrap(x.page_table), s.config).tlb)
                      ELSE x.tlb,
                      DataCacheInvalidatePage(s.dc, target, s.config),
                      IF (is_write_back(s.config.data_cache)
                             /\ ~s.config.l2_cache_enabled)
                         \/ ~IsSome(s.l2)
                      THEN [l2 |-> s.l2, ok |-> TRUE]
                      ELSE Second(L2CacheInvalidatePage(Unwrap(s.l2), target, s.config)))
         IN  At(InvalidationAddress(s.config, x.physical_address))

\* The L2 half of the cache accesses, after the data cache answered d1.
SecondLevel(s, access, physical_address, l20, dc_address, d1, out1) ==
    IF ~IsSome(l20)
    THEN [panic |-> FALSE, dc |-> d1.d, l2 |-> l20, output |-> out1,
          dc_address |-> dc_address, dc_hit |-> d1.hit,
          l2_address |-> None, l2_hit |-> None]
    ELSE IF ~DrivesL2(s.config, d1.hit, access)
    THEN [panic |-> FALSE, dc |-> d1.d, l2 |-> l20, output |-> out1,
          dc_address |-> dc_address, dc_hit |-> d1.hit,
          l2_address |-> Some(new_l2_cache_address(physical_address, s.config)),
          l2_hit |-> None]
    ELSE LET Done(addr, lr, d2) ==
                 IF ~lr.ok \/ ~d2.ok \/ ~d2.hit
                 THEN [panic |-> TRUE]
                 ELSE [panic |-> FALSE, dc |-> d2.d, l2 |-> Some(lr.d),
                       output |-> add_l2_access(out1, s.config, lr.hit),
                       dc_address |-> dc_address, dc_hit |-> d1.hit,
                       l2_address |-> Some(addr),
                       l2_hit |-> IF SurfacesL2Hit(s.config, d1.hit, access)
                                  THEN Some(lr.hit) ELSE None]
             At(addr) ==
                 Done(addr,
                      L2CacheAccess(Unwrap(l20), is_read(access), addr, s.time),
                      IF RepeatsL1(s.config)
                      THEN DataCacheAccess(d1.d, is_read(access), dc_address, s.time)
                      ELSE [d |-> d1.d, hit |-> TRUE, ok |-> TRUE])
         IN  At(new_l2_cache_address(physical_address, s.config))

\* The data-cache access and the L2 decision, from the caches dc0 and l20 and
\* the output out0 that translation left.
CacheAccesses(s, access, physical_address, dc0, l20, out0) ==
    LET First(dc_address, d1) ==
            IF ~d1.ok THEN [panic |-> TRUE]
            ELSE SecondLevel(s, access, physical_address, l20, dc_address, d1,
                             add_dc_access(out0, d1.hit))
        At(dc_address) ==
            First(dc_address, DataCacheAccess(dc0, is_read(access), dc_address, s.time))
    IN  At(new_data_cache_address(physical_address, s.config))

\* The AccessOutput of the access.
Record(s, access, x, c) ==
    [ access |-> access,
      virtual_address |-> IF s.config.virtual_addresses_enabled
                          THEN Some(access.address) ELSE None,
      physical_address |-> x.physical_address,
      virtual_page_number |->
          IF s.config.virtual_addresses_enabled
          THEN Some(to_page_number(s.config, access.address))
          ELSE None,
      physical_page_number |-> to_page_number(s.config, x.physical_address),
      page_offset |-> BitAnd(x.physical_address, get_page_size(s.config) - 1),
      tlb_address |-> x.tlb_address,
      tlb_hit |-> IF s.config.tlb_enabled THEN Some(x.is_tlb_hit) ELSE None,
      page_table_hit |-> IF s.config.virtual_addresses_enabled
                         THEN Some(x.is_page_table_hit) ELSE None,
      dc_address |-> c.dc_address,
      dc_hit |-> c.dc_hit,
      l2_address |-> c.l2_address,
      l2_hit |-> c.l2_hit ]

\* age leaving the clock where it is.
age_stopped(time_now) == time_now

\* Simulator::age
age(time_now) == time_now + 1

\* The end of simulate_access: age the clock and append the record.  probe
\* keeps what the fault propagation left, before the access's own lookups.
Accounting(s, access, x, inv, c) ==
    IF c.panic THEN [panic |-> TRUE]
    ELSE [ panic |-> FALSE,
           time |-> age(s.time),
           page_table |-> x.page_table,
           tlb |-> inv.tlb,
           dc |-> c.dc,
           l2 |-> c.l2,
           output |-> add_access(c.output, Record(s, access, x, c)),
           probe |-> [ is_page_fault |-> inv.is_page_fault,
                       physical_address |-> x.physical_address,
                       tlb_raw_hit |-> x.tlb_raw_hit,
                       dc |-> inv.dc.cache.sets,
                       l2 |-> IF IsSome(inv.l2)
                              THEN Unwrap(inv.l2).cache.sets ELSE << >> ] ]

\* Simulator::simulate_access as a function of the simulator s and the access.
SimulateAccess(s, access) ==
    LET Propagated(x, inv) ==
            IF inv.panic THEN [panic |-> TRUE]
            ELSE Accounting(s, access, x, inv,
                     CacheAccesses(s, access, x.physical_address, inv.dc, inv.l2,
                                   TranslationStats(s, x)))
        Addressed(x) ==
            IF x.panic THEN [panic |-> TRUE] ELSE Propagated(x, Propagation(s, x))
    IN  Addressed(Translation(s, access))

----------------------------------------------------------------------------
(* Configurations, traces and the state machine.                           *)

\* A TLB of two direct-mapped sets over two virtual pages and one frame,
\* with one-byte lines: a page spans two lines of either cache.
SmallGeometry ==
    [ tlb        |-> [number_of_sets |-> 2, set_size |-> 1],
      page_table |-> [number_of_virtual_pages |-> 2, number_of_physical_pages |-> 1,
                      page_size |-> 2],
      data_cache |-> [number_of_sets |-> 2, set_size |-> 1, line_size |-> 1],
      l2_cache   |-> [number_of_sets |-> 1, set_size |-> 2, line_size |-> 1] ]

\* A two-way TLB over four virtual pages and two frames, with lines as long
\* as a page.
WideGeometry ==
    [ tlb        |-> [number_of_sets |-> 1, set_size |-> 2],
      page_table |-> [number_of_virtual_pages |-> 4, number_of_physical_pages |-> 2,
                      page_size |-> 2],
      data_cache |-> [number_of_sets |-> 1, set_size |-> 2, line_size |-> 2],
      l2_cache   |-> [number_of_sets |-> 2, set_size |-> 1, line_size |-> 2] ]

\* SimulatorConfig over a geometry g with the given flags and write policies.
Config(g, v, t, l, dw, lw) ==
    [ virtual_addresses_enabled |-> v,
      tlb_enabled               |-> t,
      l2_cache_enabled          |-> l,
      tlb                       |-> g.tlb,
      page_table                |-> g.page_table,
      data_cache                |-> [ number_of_sets |-> g.data_cache.number_of_sets,
                                      set_size       |-> g.data_cache.set_size,
                                      line_size      |-> g.data_cache.line_size,
                                      write_through  |-> dw ],
      l2_cache                  |-> [ number_of_sets |-> g.l2_cache.number_of_sets,
                                      set_size       |-> g.l2_cache.set_size,
                                      line_size      |-> g.l2_cache.line_size,
                                      write_through  |-> lw ] ]

\* The configurations explored: the small geometry under every setting of the
\* three flags and of the write policies in use, and the wide geometry with
\* the whole hierarchy enabled under every pair of write policies.
Configs ==
    { Config(SmallGeometry, v, t, TRUE, dw, lw) :
        v \in BOOLEAN, t \in BOOLEAN, dw \in BOOLEAN, lw \in BOOLEAN }
    \cup { Config(SmallGeometry, v, t, FALSE, dw, FALSE) :
             v \in BOOLEAN, t \in BOOLEAN, dw \in BOOLEAN }
    \cup { Config(WideGeometry, TRUE, TRUE, TRUE, dw, lw) :
             dw \in BOOLEAN, lw \in BOOLEAN }

\* The operations a trace may hold.
Operations == {Read(a) : a \in 0..MaxAddr} \cup {Write(a) : a \in 0..MaxAddr}

\* The simulator as one record.
Sim ==
    [ config |-> config, time |-> time, page_table |-> page_table, tlb |-> tlb,
      dc |-> dc, l2 |-> l2, output |-> output ]

\* No function under evaluation: bench is used by the specifications that apply
\* one function of the program to inputs drawn from a bounded set.
NoBench == [kind |-> "none"]

NoProbe ==
    [ is_page_fault |-> FALSE, physical_address |-> 0, tlb_raw_hit |-> FALSE,
      dc |-> << >>, l2 |-> << >> ]

\* From<SimulatorConfig> for Simulator, as a value: the simulator built over cfg.
SimulatorFrom(cfg) ==
    [ config |-> cfg,
      time |-> 1,
      page_table |-> IF cfg.virtual_addresses_enabled
                     THEN Some(NewPageTable(cfg.page_table.number_of_virtual_pages,
                                            cfg.page_table.number_of_physical_pages,
                                            cfg.page_table.page_size))
                     ELSE None,
      tlb |-> IF cfg.tlb_enabled THEN Some(TLBFromConfig(cfg)) ELSE None,
      dc |-> DataCacheFromConfig(cfg),
      l2 |-> IF cfg.l2_cache_enabled THEN Some(L2CacheFromConfig(cfg)) ELSE None,
      output |-> EmptyOutput ]

\* Simulator::simulate on a second simulator: the simulator s after the
\* operations ops[k..], none of which panics.
RECURSIVE Replay(_, _, _)
Replay(s, ops, k) ==
    IF k > Len(ops) THEN s
    ELSE LET Served(r) ==
                 Replay([ config |-> s.config, time |-> r.time,
                          page_table |-> r.page_table, tlb |-> r.tlb, dc |-> r.dc,
                          l2 |-> r.l2, output |-> r.output ], ops, k + 1)
         IN  Served(SimulateAccess(s, ops[k]))

\* From<SimulatorConfig> for Simulator: the simulator built over config.
Constructed ==
    /\ time = 1
    /\ page_table = IF config.virtual_addresses_enabled
                    THEN Some(NewPageTable(config.page_table.number_of_virtual_pages,
                                           config.page_table.number_of_physical_pages,
                                           config.page_table.page_size))
                    ELSE None
    /\ tlb = IF config.tlb_enabled THEN Some(TLBFromConfig(config)) ELSE None
    /\ dc = DataCacheFromConfig(config)
    /\ l2 = IF config.l2_cache_enabled THEN Some(L2CacheFromConfig(config)) ELSE None
    /\ output = EmptyOutput
    /\ probe = NoProbe
    /\ panicked = FALSE
    /\ served = << >>

\* A simulator built over one of the configurations explored.
Init ==
    /\ config \in Configs
    /\ Constructed
    /\ bench = NoBench

\* One access of the trace, served to completion.
Access(access, r) ==
    /\ ~r.panic
    /\ time' = r.time
    /\ page_table' = r.page_table
    /\ tlb' = r.tlb
    /\ dc' = r.dc
    /\ l2' = r.l2
    /\ output' = r.output
    /\ probe' = r.probe
    /\ served' = Append(served, access)
    /\ UNCHANGED <<config, panicked, bench>>

\* One access of the trace on which the simulator panics: the run is over.
Abort(access, r) ==
    /\ r.panic
    /\ panicked' = TRUE
    /\ UNCHANGED <<config, time, page_table, tlb, dc, l2, output, probe, served, bench>>

\* Simulator::simulate: the next operation of the trace, whatever it is.
Next ==
    /\ ~panicked
    /\ time <= MaxTime
    /\ \E access \in Operations :
          LET r == SimulateAccess(Sim, access)
          IN  \/ Access(access, r)
              \/ Abort(access, r)

Spec == Init /\ [][Next]_vars

\* The end-to-end scenarios: traces over a few line-sized strides, written as
\* trace lines, run on the configurations the scenarios name.

\* The longest scenario trace.
ScenarioLen == 4

\* An L1 of four direct-mapped sets of 16-byte lines.
DirectMappedGeometry ==
    [ tlb        |-> [number_of_sets |-> 1, set_size |-> 1],
      page_table |-> [number_of_virtual_pages |-> 2, number_of_physical_pages |-> 1,
                      page_size |-> 16],
      data_cache |-> [number_of_sets |-> 4, set_size |-> 1, line_size |-> 16],
      l2_cache   |-> [number_of_sets |-> 1, set_size |-> 1, line_size |-> 16] ]

\* An L1 of one two-way set of 16-byte lines.
TwoWayGeometry ==
    [DirectMappedGeometry EXCEPT
        !.data_cache = [number_of_sets |-> 1, set_size |-> 2, line_size |-> 16]]

\* An L1 of a single 16-byte line, over two virtual pages and one frame of 16
\* bytes.
SingleLineGeometry ==
    [DirectMappedGeometry EXCEPT
        !.data_cache = [number_of_sets |-> 1, set_size |-> 1, line_size |-> 16]]

\* The direct-mapped and the two-way L1 with write-back, the single-line L1
\* with either write policy, all under physical addressing, and the
\* single-line L1 under virtual addressing; TLB and L2 are off throughout.
ScenarioConfigs ==
    { Config(DirectMappedGeometry, FALSE, FALSE, FALSE, FALSE, FALSE),
      Config(TwoWayGeometry, FALSE, FALSE, FALSE, FALSE, FALSE),
      Config(SingleLineGeometry, FALSE, FALSE, FALSE, TRUE, FALSE),
      Config(SingleLineGeometry, FALSE, FALSE, FALSE, FALSE, FALSE),
      Config(SingleLineGeometry, TRUE, FALSE, FALSE, FALSE, FALSE) }

\* The address digits of the trace lines, leading zeros left out.
ScenarioDigits == { <<0, 0>>, <<1, 0>>, <<2, 0>>, <<4, 0>> }

\* The operations the trace lines stand for.
ScenarioOperations ==
    {from_buffer(access_type, digits) : access_type \in {"R", "W"}, digits \in ScenarioDigits}

InitScenario ==
    /\ config \in ScenarioConfigs
    /\ Constructed
    /\ bench = NoBench

\* Simulator::simulate over the scenario trace lines.
NextScenario ==
    /\ ~panicked
    /\ time <= ScenarioLen
    /\ \E access \in ScenarioOperations :
          LET r == SimulateAccess(Sim, access)
          IN  \/ Access(access, r)
              \/ Abort(access, r)

SpecScenario == InitScenario /\ [][NextScenario]_vars

\* EvictionPolicy::evict applied to sets drawn from a bounded collection, next
\* to the two-way L1 serving the scenario traces.

\* The number of slots of the sets drawn.
EvictWays == 3

\* The largest access time a block of a drawn set carries.
MaxStamp == 3

\* The blocks slot k of a drawn set may hold: tags fall as slots rise, and a
\* block was first accessed no later than it was last accessed.
SlotBlocks(k) ==
    UNION { { [ tag |-> EvictWays - k, index |-> 0, dirty |-> FALSE, size |-> 16,
                last_access |-> l, first_access |-> f ] : f \in 1..l } :
            l \in 1..MaxStamp }

\* The sets of n slots drawn: every slot empty or holding one of its blocks.
RECURSIVE DrawnSets(_)
DrawnSets(n) ==
    IF n = 0 THEN { << >> }
    ELSE { Append(blocks, slot) :
             blocks \in DrawnSets(n - 1),
             slot \in {None} \cup {Some(b) : b \in SlotBlocks(n)} }

\* The inputs of evict: a policy and a set.
EvictInputs ==
    { [ kind |-> "evict", policy |-> policy, blocks |-> blocks,
        done |-> FALSE, left |-> << >>, evicted |-> None ] :
        policy \in {"LRU", "FIFO"}, blocks \in DrawnSets(EvictWays) }

InitEvict ==
    /\ config = Config(TwoWayGeometry, FALSE, FALSE, FALSE, FALSE, FALSE)
    /\ Constructed
    /\ bench \in EvictInputs \cup {NoBench}

\* EvictionPolicy::evict on the drawn set.
ApplyEvict ==
    /\ bench.kind = "evict"
    /\ ~bench.done
    /\ \E rnd \in 0..1 :
          LET Done(r) == [bench EXCEPT !.done = TRUE, !.left = r.blocks,
                                       !.evicted = r.evicted]
          IN  bench' = Done(PolicyEvict(bench.policy, bench.blocks, rnd))
    /\ UNCHANGED <<config, time, page_table, tlb, dc, l2, output, probe, panicked, served>>

\* Simulator::simulate over the scenario trace lines, on the two-way L1.
ServeScenario ==
    /\ bench = NoBench
    /\ NextScenario

NextEvict ==
    \/ ApplyEvict
    \/ ServeScenario

SpecEvict == InitEvict /\ [][NextEvict]_vars

\* PageTable::translate called time after time on a page table of its own,
\* next to the single-line L1 under virtual addressing serving the scenario
\* traces.

\* The number of translate calls made on a table.
PtSteps == 4

\* The largest virtual address translated.
MaxVirtual == 8

\* The page tables translated on: one frame under two pages, two frames under
\* four pages, pages of 2 bytes.
BenchTables == { NewPageTable(2, 1, 2), NewPageTable(4, 2, 2) }

\* A page table before its first translate call; t is the time of the next
\* call, before the table the latest call started from.
BenchTable(pt) ==
    [ kind |-> "translate", pt |-> pt, t |-> 1, called |-> FALSE, before |-> pt,
      vaddr |-> 0, result |-> None, panic |-> FALSE ]

InitTranslate ==
    /\ config = Config(SingleLineGeometry, TRUE, FALSE, FALSE, FALSE, FALSE)
    /\ Constructed
    /\ bench \in {BenchTable(pt) : pt \in BenchTables} \cup {NoBench}

\* PageTable::translate on the bench table, at the next access time.
ApplyTranslate ==
    /\ bench.kind = "translate"
    /\ ~bench.panic
    /\ bench.t <= PtSteps
    /\ \E vaddr \in 0..MaxVirtual :
          LET Done(r) == [bench EXCEPT !.pt = r.pt, !.t = @ + 1, !.called = TRUE,
                                       !.before = bench.pt, !.vaddr = vaddr,
                                       !.result = r.result, !.panic = r.panic]
          IN  bench' = Done(translate(bench.pt, vaddr, bench.t))
    /\ UNCHANGED <<config, time, page_table, tlb, dc, l2, output, probe, panicked, served>>

NextTranslate ==
    \/ ApplyTranslate
    \/ ServeScenario

SpecTranslate == InitTranslate /\ [][NextTranslate]_vars

\* Two frames under four virtual pages of two bytes, with one-byte lines in a
\* direct-mapped L1 and L2 of four sets: a page spans two lines, and two pages
\* are resident at a time.

FrameLen == 3

MaxFrameAddr == 5

TwoFrameGeometry ==
    [ tlb        |-> [number_of_sets |-> 2, set_size |-> 1],
      page_table |-> [number_of_virtual_pages |-> 4, number_of_physical_pages |-> 2,
                      page_size |-> 2],
      data_cache |-> [number_of_sets |-> 4, set_size |-> 1, line_size |-> 1],
      l2_cache   |-> [number_of_sets |-> 4, set_size |-> 1, line_size |-> 1] ]

\* Virtual addressing over the two frames with L2 enabled, both levels
\* write-back.
FrameConfigs == { Config(TwoFrameGeometry, TRUE, FALSE, TRUE, FALSE, FALSE) }

\* The addresses of the first three virtual pages, and the first address
\* beyond the page table.
FrameAddresses == 0..MaxFrameAddr \cup {8}

FrameOperations ==
    {Read(a) : a \in FrameAddresses} \cup {Write(a) : a \in FrameAddresses}

InitFrames ==
    /\ config \in FrameConfigs
    /\ Constructed
    /\ bench = NoBench

\* Simulator::simulate over the frame addresses.
NextFrames ==
    /\ ~panicked
    /\ time <= FrameLen
    /\ \E access \in FrameOperations :
          LET r == SimulateAccess(Sim, access)
          IN  \/ Access(access, r)
              \/ Abort(access, r)

SpecFrames == InitFrames /\ [][NextFrames]_vars

\* The input side of the program applied to inputs drawn from bounded
\* collections: addresses split by BlockAddress::new.

MaxPattern == 7

\* Addresses over the width of the address: a three-bit pattern at every third
\* bit position.
AddressSamples == {Shl(m, 3 * k) : m \in 0..MaxPattern, k \in 0..9}

\* Index and offset widths, up to 30 bits together.
FieldWidths == {0, 1, 4, 10, 15}

AddressInputs ==
    { [ kind |-> "address", address |-> a, index_bits |-> i, offset_bits |-> o,
        decoded |-> None, rebuilt |-> None ] :
        a \in AddressSamples, i \in FieldWidths, o \in FieldWidths }

\* str::parse::<u64> succeeds on the characters after the colon: at least one,
\* digits only.  A character that is no digit is written 10.
parses_decimal(digits) ==
    digits # << >> /\ \A i \in DOMAIN digits : digits[i] \in 0..9

\* get_decimal: the value of the digits after the colon, most significant
\* first.
RECURSIVE get_decimal(_)
get_decimal(digits) ==
    IF digits = << >> THEN 0
    ELSE 10 * get_decimal(SubSeq(digits, 1, Len(digits) - 1)) + digits[Len(digits)]

\* get_bool
get_bool(value) == value \in {"y", "Y"}

\* The numbers of a configuration file, as written.
NumbersOf(file) ==
    { file.tlb.number_of_sets, file.tlb.set_size,
      file.page_table.number_of_virtual_pages, file.page_table.number_of_physical_pages,
      file.page_table.page_size,
      file.data_cache.number_of_sets, file.data_cache.set_size, file.data_cache.line_size,
      file.l2_cache.number_of_sets, file.l2_cache.set_size, file.l2_cache.line_size }

\* SimulatorConfig::from_buffer over a file whose sections and keys are the
\* expected ones: every number is read by get_decimal, every flag by get_bool,
\* and what was read is stored as it is.
SimulatorConfigFromBuffer(file) ==
    IF \E digits \in NumbersOf(file) : ~parses_decimal(digits)
    THEN [panic |-> TRUE]
    ELSE [ panic |-> FALSE,
           config |->
             [ virtual_addresses_enabled |-> get_bool(file.virtual_addresses),
               tlb_enabled               |-> get_bool(file.tlb_flag),
               l2_cache_enabled          |-> get_bool(file.l2_cache_flag),
               tlb        |-> [ number_of_sets |-> get_decimal(file.tlb.number_of_sets),
                                set_size       |-> get_decimal(file.tlb.set_size) ],
               page_table |-> [ number_of_virtual_pages |->
                                    get_decimal(file.page_table.number_of_virtual_pages),
                                number_of_physical_pages |->
                                    get_decimal(file.page_table.number_of_physical_pages),
                                page_size |-> get_decimal(file.page_table.page_size) ],
               data_cache |-> [ number_of_sets |-> get_decimal(file.data_cache.number_of_sets),
                                set_size       |-> get_decimal(file.data_cache.set_size),
                                line_size      |-> get_decimal(file.data_cache.line_size),
                                write_through  |-> get_bool(file.data_cache.write_through) ],
               l2_cache   |-> [ number_of_sets |-> get_decimal(file.l2_cache.number_of_sets),
                                set_size       |-> get_decimal(file.l2_cache.set_size),
                                line_size      |-> get_decimal(file.l2_cache.line_size),
                                write_through  |-> get_bool(file.l2_cache.write_through) ] ] ]

\* Configuration files: the single-line geometry with the L1 set count, set
\* size and line size and the page size drawn, powers of two or not, and a set
\* count that is no number.
ConfigFiles ==
    { [ tlb        |-> [number_of_sets |-> <<1>>, set_size |-> <<1>>],
        page_table |-> [ number_of_virtual_pages  |-> <<2>>,
                         number_of_physical_pages |-> <<1>>,
                         page_size                |-> page ],
        data_cache |-> [ number_of_sets |-> sets, set_size |-> ways,
                         line_size |-> line, write_through |-> "n" ],
        l2_cache   |-> [ number_of_sets |-> <<1>>, set_size |-> <<1>>,
                         line_size |-> <<1, 6>>, write_through |-> "n" ],
        virtual_addresses |-> "y", tlb_flag |-> "n", l2_cache_flag |-> "n" ] :
        sets \in {<<1>>, <<2>>, <<3>>, <<6>>, <<10>>},
        ways \in {<<1>>, <<2>>, <<3>>},
        line \in {<<8>>, <<1, 2>>, <<1, 6>>},
        page \in {<<1, 6>>, <<2, 4>>} }

ConfigInputs ==
    { [kind |-> "config", file |-> file, loaded |-> FALSE, panic |-> FALSE,
       simulator |-> None] : file \in ConfigFiles }

TraceLen == 3

\* u64::from_str_radix(.., 16) succeeds on the characters after the colon: at
\* least one, hexadecimal digits only.  A character that is none is written 16.
parses_hexadecimal(digits) ==
    digits # << >> /\ \A i \in DOMAIN digits : digits[i] \in 0..15

\* get_hexadecimal with no expected key panics on the line: unwrap finds
\* nothing after the first colon, or from_str_radix fails.
LinePanics(line) == ~line.colon \/ ~parses_hexadecimal(line.digits)

\* Trace::from_file: Operation::from_buffer line by line from line k on, pushing
\* each operation, until it returns None at the end of the file or on an access
\* type other than R and W.
RECURSIVE TraceFromFile(_, _, _)
TraceFromFile(lines, k, operations) ==
    IF k > Len(lines) THEN [panic |-> FALSE, operations |-> operations]
    ELSE IF LinePanics(lines[k]) THEN [panic |-> TRUE, operations |-> << >>]
    ELSE IF lines[k].access_type \notin {"R", "W"}
    THEN [panic |-> FALSE, operations |-> operations]
    ELSE TraceFromFile(lines, k + 1,
                       Append(operations,
                              from_buffer(lines[k].access_type, lines[k].digits)))

\* Trace lines: reads and writes of pages inside and outside the two-page
\* table, a line without a colon, a line whose address is no hexadecimal
\* number, and a line of another access type.
TraceLines ==
    { [access_type |-> "R", colon |-> TRUE, digits |-> <<0, 0>>],
      [access_type |-> "W", colon |-> TRUE, digits |-> <<1, 0>>],
      [access_type |-> "R", colon |-> TRUE, digits |-> <<4, 0>>],
      [access_type |-> "R", colon |-> FALSE, digits |-> << >>],
      [access_type |-> "R", colon |-> TRUE, digits |-> <<16>>],
      [access_type |-> "X", colon |-> TRUE, digits |-> <<0, 0>>] }

TraceFiles == UNION {[1..n -> TraceLines] : n \in 1..TraceLen}

TraceInputs ==
    { [kind |-> "trace", lines |-> lines, read |-> FALSE, panic |-> FALSE,
       operations |-> << >>] : lines \in TraceFiles }

InitInput ==
    /\ config = Config(SingleLineGeometry, TRUE, FALSE, FALSE, FALSE, FALSE)
    /\ Constructed
    /\ bench \in AddressInputs \cup ConfigInputs \cup TraceInputs

\* BlockAddress::new on the drawn address, then get_address on its result.
ApplyDecode ==
    /\ bench.kind = "address"
    /\ bench.decoded = None
    /\ LET Rebuilt(a) == [bench EXCEPT !.decoded = Some(a),
                                       !.rebuilt = Some(get_address(a))]
       IN  bench' = Rebuilt(BlockAddress(bench.address, bench.index_bits,
                                         bench.offset_bits))
    /\ UNCHANGED <<config, time, page_table, tlb, dc, l2, output, probe, panicked, served>>

\* main: SimulatorConfig::default, then Simulator::from over what it returned.
ApplyLoad ==
    /\ bench.kind = "config"
    /\ ~bench.loaded
    /\ LET Loaded(r) ==
               [bench EXCEPT !.loaded = TRUE,
                             !.panic = r.panic,
                             !.simulator = IF r.panic THEN None
                                           ELSE Some(SimulatorFrom(r.config))]
       IN  bench' = Loaded(SimulatorConfigFromBuffer(bench.file))
    /\ UNCHANGED <<config, time, page_table, tlb, dc, l2, output, probe, panicked, served>>

\* main: Trace::from_file over the whole file, before any access is simulated.
ApplyRead ==
    /\ bench.kind = "trace"
    /\ ~bench.read
    /\ LET Read_(r) == [bench EXCEPT !.read = TRUE, !.panic = r.panic,
                                     !.operations = r.operations]
       IN  bench' = Read_(TraceFromFile(bench.lines, 1, << >>))
    /\ UNCHANGED <<config, time, page_table, tlb, dc, l2, output, probe, panicked, served>>

\* main: the loop over the trace that was read, one operation after another.
SimulateTrace ==
    /\ bench.kind = "trace"
    /\ bench.read
    /\ ~bench.panic
    /\ ~panicked
    /\ Len(served) < Len(bench.operations)
    /\ LET access == bench.operations[Len(served) + 1]
           r == SimulateAccess(Sim, access)
       IN  \/ Access(access, r)
           \/ Abort(access, r)

NextInput == ApplyDecode \/ ApplyLoad \/ ApplyRead \/ SimulateTrace

SpecInput == InitInput /\ [][NextInput]_vars

----------------------------------------------------------------------------
(* Properties.                                                             *)

\* The generic caches of the hierarchy that are present.
Hierarchy ==
    {dc.cache}
    \cup (IF IsSome(l2) THEN {Unwrap(l2).cache} ELSE {})
    \cup (IF IsSome(tlb) THEN {Unwrap(tlb).cache} ELSE {})

\* The slots of a set that hold a block.
Present(blocks) == {k \in DOMAIN blocks : IsSome(blocks[k])}

\* The AccessOutput of the latest access.
LastRecord == output.accesses[Len(output.accesses)]

\* The virtual pages with a present page-table entry.
MappedPages ==
    IF IsSome(page_table)
    THEN {i \in DOMAIN Unwrap(page_table).entries : IsSome(Unwrap(page_table).entries[i])}
    ELSE {}

\* The frame the entry of mapped page i references.
FrameOf(i) == entry_physical_page_number(Unwrap(Unwrap(page_table).entries[i]))

\* The first physical address of the block with the given tag in set i (1-based)
\* of a cache of number_of_sets sets of line_size bytes.
BlockBase(tag, i, number_of_sets, line_size) ==
    (tag * number_of_sets + (i - 1)) * line_size

\* Whether the sets hold a block that lies in physical page p.
HoldsBlockOfPage(sets, section, p, page_size) ==
    \E i \in DOMAIN sets : \E k \in Present(sets[i]) :
        BlockBase(Unwrap(sets[i][k]).tag, i, section.number_of_sets,
                  section.line_size) \div page_size = p

\* C1: right after the invalidation step of a faulting access that was given
\* frame p, before the access's own L1 lookup, neither L1 nor L2 holds a block
\* of page p.
C1_FaultClearsFrame ==
    probe.is_page_fault =>
        /\ ~HoldsBlockOfPage(probe.dc, config.data_cache,
                             probe.physical_address \div get_page_size(config),
                             get_page_size(config))
        /\ ~HoldsBlockOfPage(probe.l2, config.l2_cache,
                             probe.physical_address \div get_page_size(config),
                             get_page_size(config))

\* The virtual pages that key a line resident in the TLB.
TlbKeys ==
    IF IsSome(tlb)
    THEN UNION { { Unwrap(Unwrap(tlb).cache.sets[i][k]).tag * config.tlb.number_of_sets
                     + (i - 1) : k \in Present(Unwrap(tlb).cache.sets[i]) } :
                 i \in DOMAIN Unwrap(tlb).cache.sets }
    ELSE {}

RawTlbMatch(virtual_address) ==
    set_is_hit(SetOf(Unwrap(tlb).cache, new_tlb_address(virtual_address, config)),
               new_tlb_address(virtual_address, config))

\* C3: with virtual addressing and the TLB enabled, the TLB hit reported for
\* an access, in its record and in the statistics, is true only if the lookup
\* matched and the page table already mapped the page before the access; so
\* an access to an evicted page is reported a miss whatever the TLB holds.
C3_ReportedTlbHit ==
    [][ (config.virtual_addresses_enabled /\ config.tlb_enabled /\ time' = time + 1) =>
          /\ IsSome(LastRecord'.tlb_hit)
          /\ Unwrap(LastRecord'.tlb_hit) =>
                /\ RawTlbMatch(LastRecord'.access.address)
                /\ IsSome(get_entry(Unwrap(page_table), LastRecord'.access.address))
          /\ output'.tlb_hits =
                output.tlb_hits + (IF Unwrap(LastRecord'.tlb_hit) THEN 1 ELSE 0)
          /\ output'.tlb_misses =
                output.tlb_misses + (IF Unwrap(LastRecord'.tlb_hit) THEN 0 ELSE 1)
      ]_vars

\* C3 witness: the TLB lookup matched a line left from an evicted page, and the
\* access was reported a TLB miss.
C3_StaleMatchReportedMiss ==
    /\ config.virtual_addresses_enabled /\ config.tlb_enabled
    /\ Len(output.accesses) > 0
    /\ probe.tlb_raw_hit
    /\ probe.is_page_fault
    /\ LastRecord.tlb_hit = Some(FALSE)
    /\ output.tlb_hits = 0

\* C4: the page table never holds more present entries than physical_pages, and
\* every present entry references a frame whose bookkeeping time is above 0.
C4_EntriesWithinFrames ==
    IsSome(page_table) =>
        /\ Cardinality(MappedPages) <= Unwrap(page_table).physical_pages
        /\ \A i \in MappedPages :
              /\ FrameOf(i) < Len(Unwrap(page_table).physical_page_bookkeeping)
              /\ Unwrap(page_table).physical_page_bookkeeping[FrameOf(i) + 1] > 0

\* C4 witness: more faults than frames have been served and every frame is mapped.
C4_FullAfterEviction ==
    /\ IsSome(page_table)
    /\ output.pt_faults > Unwrap(page_table).physical_pages
    /\ Cardinality(MappedPages) = Unwrap(page_table).physical_pages

\* C5: no two virtual pages with present entries reference the same frame.
C5_FramesExclusive ==
    \A i \in MappedPages : \A j \in MappedPages :
        i # j => FrameOf(i) # FrameOf(j)

\* C5 witness: two pages are mapped, to two frames, after a third page was evicted.
C5_TwoMappedAfterEviction ==
    /\ Cardinality(MappedPages) = 2
    /\ output.pt_faults = 3
    /\ \E i \in MappedPages : \E j \in MappedPages : FrameOf(i) < FrameOf(j)

\* C6: in L1, L2 and the TLB, every set holds at most associativity blocks.
C6_SetWithinAssociativity ==
    \A c \in Hierarchy : \A i \in DOMAIN c.sets :
        Cardinality(Present(c.sets[i])) <= c.associativity

\* C6 witness: a two-way L2 set is full after three read misses allocated into it.
C6_FullSetAfterEviction ==
    /\ IsSome(l2)
    /\ Unwrap(l2).cache.associativity = 2
    /\ Len(Unwrap(l2).cache.sets) = 1
    /\ Cardinality(Present(Unwrap(l2).cache.sets[1])) = 2
    /\ Unwrap(l2).total_read_misses = 3

\* C7: every block resident in set i of L1, L2 or the TLB has index i and
\* first_access <= last_access.
C7_BlockInItsSet ==
    \A c \in Hierarchy : \A i \in DOMAIN c.sets : \A k \in Present(c.sets[i]) :
        /\ Unwrap(c.sets[i][k]).index = i - 1
        /\ Unwrap(c.sets[i][k]).first_access <= Unwrap(c.sets[i][k]).last_access

\* C7 witness: a block of a set other than the first was accessed again after
\* the access that allocated it.
C7_BlockReused ==
    \E c \in Hierarchy : \E i \in DOMAIN c.sets : \E k \in Present(c.sets[i]) :
        /\ i > 1
        /\ Unwrap(c.sets[i][k]).first_access < Unwrap(c.sets[i][k]).last_access

\* The number of accesses the L2 cache has served.
L2Accesses ==
    IF IsSome(l2) THEN Unwrap(l2).total_reads + Unwrap(l2).total_writes ELSE 0

\* The number of L2 results the statistics hold.
L2Counted == output.l2_hits + output.l2_misses

\* The records whose l2_hit is present.
L2Surfaced == {i \in DOMAIN output.accesses : IsSome(output.accesses[i].l2_hit)}

\* The decision table for driving L2, by (L1 policy, L2 policy, L1 hit, op).
PolicyTable(cfg, dc_hit, access) ==
    CASE cfg.data_cache.write_through /\ cfg.l2_cache.write_through ->
            ~dc_hit \/ is_write(access)
      [] cfg.data_cache.write_through /\ ~cfg.l2_cache.write_through ->
            ~dc_hit \/ (dc_hit /\ is_write(access))
      [] ~cfg.data_cache.write_through /\ cfg.l2_cache.write_through ->
            is_write(access) \/ (is_read(access) /\ ~dc_hit)
      [] ~cfg.data_cache.write_through /\ ~cfg.l2_cache.write_through ->
            ~dc_hit \/ is_write(access)

\* C8: with L2 enabled, an access reaches the L2 cache exactly when the policy
\* table says so for the configured write policies, and otherwise leaves the
\* L2 cache as it was.
C8_L2DrivenByTable ==
    [][ (config.l2_cache_enabled /\ time' = time + 1) =>
          IF PolicyTable(config, LastRecord'.dc_hit, LastRecord'.access)
          THEN L2Accesses' = L2Accesses + 1
          ELSE l2' = l2
      ]_vars

\* C8 witness: under write-back L1 over write-through L2 a write that hit in
\* L1 reached L2, and under the same policies a read that hit did not.
C8_WriteHitReachedL2 ==
    /\ config.l2_cache_enabled
    /\ ~config.data_cache.write_through /\ config.l2_cache.write_through
    /\ Len(output.accesses) = 3
    /\ is_read(output.accesses[2].access) /\ output.accesses[2].dc_hit
    /\ is_write(LastRecord.access) /\ LastRecord.dc_hit
    /\ L2Accesses = 2

\* C9 as stated: the L2 counters move and l2_hit is present exactly when the
\* access reached L2, so the counters sum to the number of records whose
\* l2_hit is present.
C9_CountersMatchRecords ==
    /\ [][ time' = time + 1 =>
             /\ (L2Counted' # L2Counted) <=> (L2Accesses' # L2Accesses)
             /\ IsSome(LastRecord'.l2_hit) <=> (L2Accesses' # L2Accesses)
         ]_vars
    /\ [](L2Counted = Cardinality(L2Surfaced))

\* C9 amended: the L2 counters move, by one, exactly when the access reached
\* L2; l2_hit is present exactly when the access reached L2 and did not hit a
\* write-back L1; so the counters sum to the number of L2 accesses, which is at
\* least the number of records whose l2_hit is present.
C9_CountersFollowAccesses ==
    /\ [][ time' = time + 1 =>
             /\ L2Counted' - L2Counted = L2Accesses' - L2Accesses
             /\ L2Accesses' - L2Accesses \in {0, 1}
             /\ IsSome(LastRecord'.l2_hit) <=>
                   /\ L2Accesses' # L2Accesses
                   /\ ~(is_write_back(config.data_cache) /\ LastRecord'.dc_hit)
         ]_vars
    /\ [](L2Counted = L2Accesses /\ Cardinality(L2Surfaced) <= L2Counted)

\* C9 witness: a write hit a write-back L1 and reached L2, which the counters
\* show and the record does not.
C9_CountedNotSurfaced ==
    /\ config.l2_cache_enabled
    /\ Len(output.accesses) > 0
    /\ is_write(LastRecord.access) /\ LastRecord.dc_hit
    /\ ~IsSome(LastRecord.l2_hit)
    /\ L2Counted = Cardinality(L2Surfaced) + 1

\* C10: under every pair of write policies, a read that hits in L1 leaves the
\* L2 cache and the L2 counters as they were and records no l2_hit; a read
\* that misses in L1 reaches L2 when L2 is enabled.
C10_ReadHitSparesL2 ==
    [][ (time' = time + 1 /\ is_read(LastRecord'.access)) =>
          IF LastRecord'.dc_hit
          THEN /\ l2' = l2
               /\ output'.l2_hits = output.l2_hits
               /\ output'.l2_misses = output.l2_misses
               /\ LastRecord'.l2_hit = None
          ELSE config.l2_cache_enabled => L2Accesses' = L2Accesses + 1
      ]_vars

\* C10 witness: the latest access is a read that hit in L1 while L2 holds a
\* block, after an earlier read that missed in L1 and reached L2.
C10_ReadHitOverWarmL2 ==
    /\ config.l2_cache_enabled
    /\ Len(output.accesses) > 1
    /\ is_read(LastRecord.access) /\ LastRecord.dc_hit
    /\ is_read(output.accesses[1].access) /\ IsSome(output.accesses[1].l2_hit)
    /\ \E i \in DOMAIN Unwrap(l2).cache.sets : Present(Unwrap(l2).cache.sets[i]) # {}

\* C11: the output holds one record per operation served, the i-th record
\* being that of the i-th operation, and total_reads and total_writes count
\* the reads and the writes served, so that their sum is the length of the
\* trace served.
C11_OneRecordPerOperation ==
    /\ Len(output.accesses) = Len(served)
    /\ \A i \in DOMAIN served : output.accesses[i].access = served[i]
    /\ output.total_reads = Cardinality({i \in DOMAIN served : is_read(served[i])})
    /\ output.total_writes = Cardinality({i \in DOMAIN served : is_write(served[i])})
    /\ output.total_reads + output.total_writes = Len(served)

\* C11 witness: a trace of three operations, reads and writes to different
\* addresses among them, was served to its end.
C11_MixedTraceServed ==
    /\ ~panicked
    /\ Len(served) = 3
    /\ is_write(served[1]) /\ is_read(served[2]) /\ is_write(served[3])
    /\ served[1].address # served[2].address
    /\ Len(output.accesses) = 3

\* C12: after any sequence of accesses the counters of the output satisfy
\* page_table_refs = pt_hits + pt_faults and disk_refs = pt_faults.
C12_RefsFollowPageTable ==
    /\ output.page_table_refs = output.pt_hits + output.pt_faults
    /\ output.disk_refs = output.pt_faults

\* Every block of the sets after that is new or differs from the block the
\* slot held before carries the stamp t.
StampedBlocks(before, after, t) ==
    \A i \in DOMAIN after : \A k \in Present(after[i]) :
        after[i][k] # before[i][k] => Unwrap(after[i][k]).last_access = t

\* Every page-table entry after that is new or differs from the entry the
\* page had before carries the stamp t.
StampedEntries(before, after, t) ==
    \A i \in DOMAIN after :
        (IsSome(after[i]) /\ after[i] # before[i]) => Unwrap(after[i]).last_access_time = t

\* The blocks of the L1 set of block address a that carry its tag.
LinesOf(sets, a) == {k \in Present(sets[a.index + 1]) : Unwrap(sets[a.index + 1][k]).tag = a.tag}

\* C13: the clock reads 1 at construction, never decreases and advances by
\* exactly 1 per access served; the n-th access runs with the clock at n and
\* leaves it at n + 1, and every block and every page-table entry it touches
\* carries the stamp n afterwards.
C13_ClockStampsAccess ==
    /\ time = 1
    /\ [][ /\ time' >= time
           /\ Len(output'.accesses) = Len(output.accesses) + 1 =>
                 /\ time = Len(output'.accesses)
                 /\ time' = time + 1
                 /\ StampedBlocks(dc.cache.sets, dc'.cache.sets, time)
                 /\ \A k \in LinesOf(dc'.cache.sets, LastRecord'.dc_address) :
                        Unwrap(dc'.cache.sets[LastRecord'.dc_address.index + 1][k]).last_access = time
                 /\ IsSome(l2) =>
                        StampedBlocks(Unwrap(l2).cache.sets, Unwrap(l2').cache.sets, time)
                 /\ IsSome(tlb) =>
                        StampedBlocks(Unwrap(tlb).cache.sets, Unwrap(tlb').cache.sets, time)
                 /\ IsSome(page_table) =>
                        /\ StampedEntries(Unwrap(page_table).entries,
                                          Unwrap(page_table').entries, time)
                        /\ Unwrap(Unwrap(page_table').entries[
                               Unwrap(LastRecord'.virtual_page_number) + 1]).last_access_time = time
         ]_vars

\* C13 witness: the third access was served with the clock at 3, page-faulted
\* into a frame it took from another page and left its line in L1.
C13_ThirdAccessStamped ==
    /\ ~panicked
    /\ Len(output.accesses) = 3 /\ time = 4
    /\ LastRecord.page_table_hit = Some(FALSE)
    /\ output.pt_faults >= 2
    /\ \E k \in LinesOf(dc.cache.sets, LastRecord.dc_address) :
          Unwrap(dc.cache.sets[LastRecord.dc_address.index + 1][k]).last_access = 3
    /\ \E i \in MappedPages : Unwrap(Unwrap(page_table).entries[i]).last_access_time = 3

\* The trace R:00000000, R:00000040, R:00000000.
DirectMappedTrace ==
    << from_buffer("R", <<0, 0>>), from_buffer("R", <<4, 0>>), from_buffer("R", <<0, 0>>) >>

\* The trace was served by the direct-mapped write-back L1 of four sets.
DirectMappedRun ==
    /\ config = Config(DirectMappedGeometry, FALSE, FALSE, FALSE, FALSE, FALSE)
    /\ served = DirectMappedTrace

\* C14, as stated: the direct-mapped L1 of four sets of 16-byte lines, with
\* write-back and everything else off, ends the trace R:00000000, R:00000040,
\* R:00000000 with dc_hits = 1, dc_misses = 2 and 2 main memory references.
C14_OneHitTwoMisses ==
    DirectMappedRun =>
        /\ output.dc_hits = 1
        /\ output.dc_misses = 2
        /\ DisplayMainMemoryRefs(output, config) = 2

\* C14, amended: the same run ends with dc_hits = 0, dc_misses = 3 and 3 main
\* memory references, the third access missing on the line the second evicted.
C14_ThreeMisses ==
    DirectMappedRun =>
        /\ output.dc_hits = 0
        /\ output.dc_misses = 3
        /\ DisplayMainMemoryRefs(output, config) = 3
        /\ \A i \in 1..3 : output.accesses[i].dc_address.index = 0
        /\ output.accesses[2].dc_address.tag # output.accesses[1].dc_address.tag

\* C14 witness: the run was made, and the second access took the line of the
\* first out of set 0.
C14_ConflictInSetZero ==
    /\ DirectMappedRun
    /\ ~panicked
    /\ Len(output.accesses) = 3
    /\ output.accesses[2].dc_address.index = 0 /\ output.accesses[2].dc_address.tag = 1
    /\ Unwrap(dc.cache.sets[1][1]).tag = 0

\* The trace R:0000, R:0010 was served by the single-line L1 over two virtual
\* pages and one frame of 16 bytes.
SingleFrameRun ==
    /\ config = Config(SingleLineGeometry, TRUE, FALSE, FALSE, FALSE, FALSE)
    /\ served = << from_buffer("R", <<0, 0>>), from_buffer("R", <<1, 0>>) >>

\* C15: with 2 virtual pages, 1 physical page of 16 bytes and an L1 of one
\* 16-byte line, TLB and L2 off, the trace R:0000, R:0010 ends with
\* pt_faults = 2, pt_hits = 0 and dc_misses = 2: the second access is given
\* frame 0 for page 1, and the L1 is empty once its fault has been propagated,
\* so the access does not hit.
C15_SecondFaultMisses ==
    SingleFrameRun =>
        /\ output.pt_faults = 2 /\ output.pt_hits = 0
        /\ output.dc_misses = 2 /\ output.dc_hits = 0
        /\ output.accesses[2].virtual_page_number = Some(1)
        /\ output.accesses[2].physical_page_number = 0
        /\ output.accesses[1].physical_page_number = 0
        /\ probe.is_page_fault
        /\ Present(probe.dc[1]) = {}
        /\ ~output.accesses[2].dc_hit

\* C15 witness: the run was made and page 1 now owns the only frame and the
\* only line.
C15_FrameReused ==
    /\ SingleFrameRun
    /\ ~panicked
    /\ MappedPages = {2}
    /\ FrameOf(2) = 0
    /\ Present(dc.cache.sets[1]) = {1}

\* Whether the line of the latest access was in L1 when the access reached it.
WasInL1 == LinesOf(probe.dc, LastRecord.dc_address) # {}

\* Whether L2 is enabled and held the line of the latest access when the access
\* was served.
WasInL2 ==
    /\ config.l2_cache_enabled
    /\ LinesOf(probe.l2, new_l2_cache_address(LastRecord.physical_address, config)) # {}

\* What the claim charges a read: nothing when L1 or L2 held the line, one
\* main-memory reference when every enabled level missed.
ReadCharge == IF WasInL1 \/ WasInL2 THEN 0 ELSE 1

\* C16: a read is charged 0 main-memory references when it hits in L1 or in
\* L2 and 1 when it misses every enabled level, and the reported main memory
\* refs are the sum of what the accesses of the trace are charged, each 0 or 1.
C16_ReadChargedOnFullMiss ==
    /\ DisplayMainMemoryRefs(output, config)
          = Cardinality({i \in DOMAIN output.accesses :
                            get_main_memory_accesses(output.accesses[i], config) = 1})
    /\ \A i \in DOMAIN output.accesses :
          get_main_memory_accesses(output.accesses[i], config) \in {0, 1}
    /\ (Len(output.accesses) > 0 /\ is_read(LastRecord.access)) =>
          /\ get_main_memory_accesses(LastRecord, config) = ReadCharge
          /\ LastRecord.dc_hit = WasInL1
          /\ LastRecord.l2_hit = IF WasInL1 \/ ~config.l2_cache_enabled
                                  THEN None ELSE Some(WasInL2)

\* C16 witness: a read that missed in L1 and hit in L2 was charged nothing,
\* after a read that missed both levels and was charged one reference.
C16_ReadServedByL2 ==
    /\ config.l2_cache_enabled
    /\ Len(output.accesses) = 3
    /\ is_read(LastRecord.access) /\ ~WasInL1 /\ WasInL2
    /\ LastRecord.l2_hit = Some(TRUE)
    /\ is_read(output.accesses[1].access)
    /\ get_main_memory_accesses(output.accesses[1], config) = 1
    /\ get_main_memory_accesses(LastRecord, config) = 0
    /\ DisplayMainMemoryRefs(output, config) >= 1

\* The latest access is a write served with the L2 cache enabled.
WriteOverL2 ==
    /\ config.l2_cache_enabled
    /\ Len(output.accesses) > 0
    /\ is_write(LastRecord.access)

\* C17, as stated: a write is charged 0 main-memory references when both L1
\* and L2 are write-back and 1 otherwise, whatever it hit or missed.
C17_WriteAbsorbedByTwoLevels ==
    WriteOverL2 =>
        get_main_memory_accesses(LastRecord, config)
          = IF is_write_back(config.data_cache) /\ is_write_back(config.l2_cache)
            THEN 0 ELSE 1

\* C17, amended: with L2 enabled, a write is charged 0 main-memory references
\* when L2 is write-back and the write hit in L1 or in L2, and 1 otherwise,
\* that is when L2 is write-through or the write missed both levels; the L1
\* write policy does not enter.
C17_WriteAbsorbedByBackL2 ==
    WriteOverL2 =>
        /\ get_main_memory_accesses(LastRecord, config)
             = IF is_write_back(config.l2_cache) /\ (WasInL1 \/ WasInL2)
               THEN 0 ELSE 1
        /\ LastRecord.dc_hit = WasInL1
        /\ ~WasInL1 => LastRecord.l2_hit = Some(WasInL2)

\* C17 witness: a write hit a write-through L1 over a write-back L2 and was
\* charged nothing.
C17_ThroughL1Absorbed ==
    /\ WriteOverL2
    /\ is_write_through(config.data_cache) /\ is_write_back(config.l2_cache)
    /\ WasInL1 /\ LastRecord.dc_hit
    /\ get_main_memory_accesses(LastRecord, config) = 0

\* The records of accesses that went to L1 set i (0-based).
RecordsOfSet(i) == {n \in DOMAIN output.accesses : output.accesses[n].dc_address.index = i}

\* The latest record of an access to L1 set i; 0 when there is none.
LatestOfSet(i) ==
    IF RecordsOfSet(i) = {} THEN 0
    ELSE CHOOSE n \in RecordsOfSet(i) : \A m \in RecordsOfSet(i) : m <= n

\* The blocks held before that no slot holds after.
Removed(before, after) ==
    { Unwrap(before[k]) : k \in Present(before) }
      \ { b \in { Unwrap(before[k]) : k \in Present(before) } :
              \E k \in Present(after) : Unwrap(after[k]).tag = b.tag }

\* A step serving an access: a hit in L1 leaves its block stamped with the time
\* of the access, and when the latest access to the set, in a cache of at
\* least ways ways, was a hit on block b, the blocks this access evicts from
\* the set are other than b and were last accessed before that hit.
HitOutlivesEviction(ways) ==
    Len(output'.accesses) = Len(output.accesses) + 1 =>
      /\ LastRecord'.dc_hit =>
            \E k \in LinesOf(dc'.cache.sets, LastRecord'.dc_address) :
                Unwrap(dc'.cache.sets[LastRecord'.dc_address.index + 1][k]).last_access
                  = time
      /\ LET i == LastRecord'.dc_address.index
             n == LatestOfSet(i)
         IN  (/\ config.data_cache.set_size >= ways
              /\ n > 0
              /\ output.accesses[n].dc_hit) =>
                 \A b \in Removed(probe'.dc[i + 1], dc'.cache.sets[i + 1]) :
                     /\ b.last_access < n
                     /\ b.tag # output.accesses[n].dc_address.tag

\* C18, as stated: in an LRU cache a block b hit at time t carries
\* last_access = t right after the hit, and the next eviction from its set,
\* with no other access to the set in between, removes a block last accessed
\* before t, never b.
C18_HitBlockSurvives == [][HitOutlivesEviction(1)]_vars

\* C18, amended: the same in a set of at least two ways.
C18_HitBlockSurvivesAmongTwo == [][HitOutlivesEviction(2)]_vars

\* C18 witness: in the two-way L1 the third access hit a block of the full
\* set and the fourth evicted the other block, which the hit block outlived.
C18_OtherBlockEvicted ==
    /\ config.data_cache.set_size = 2
    /\ ~panicked
    /\ Len(output.accesses) = 4
    /\ output.accesses[3].dc_hit /\ ~LastRecord.dc_hit
    /\ Cardinality(Present(probe.dc[1])) = 2
    /\ \E k \in Present(dc.cache.sets[1]) :
          /\ Unwrap(dc.cache.sets[1][k]).tag = output.accesses[3].dc_address.tag
          /\ Unwrap(dc.cache.sets[1][k]).last_access = 3
    /\ \E b \in Removed(probe.dc[1], dc.cache.sets[1]) : b.last_access < 3

\* The key the policy of the drawn input orders blocks by.
PolicyKey(block) ==
    IF bench.policy = "FIFO" THEN block.first_access ELSE block.last_access

\* The slots of the drawn set whose block has the smallest key.
MinimumSlots ==
    { k \in Present(bench.blocks) :
        \A j \in Present(bench.blocks) :
            PolicyKey(Unwrap(bench.blocks[k])) <= PolicyKey(Unwrap(bench.blocks[j])) }

\* evict was applied to a full drawn set.
EvictedFromFull ==
    /\ bench.kind = "evict"
    /\ bench.done
    /\ is_full(bench.blocks)

\* The trace R:00, R:10, R:00, R:20 was served by the two-way L1.
TwoWayRun ==
    /\ config = Config(TwoWayGeometry, FALSE, FALSE, FALSE, FALSE, FALSE)
    /\ served = << from_buffer("R", <<0, 0>>), from_buffer("R", <<1, 0>>),
                   from_buffer("R", <<0, 0>>), from_buffer("R", <<2, 0>>) >>

\* C19: evict on a full set removes the present block with the smallest key,
\* last_access under LRU and first_access under FIFO, and among several blocks
\* with the smallest key the one in the lowest slot; the two-way LRU L1 ends
\* the trace R:00, R:10, R:00, R:20 with tag 1 evicted, tag 0 kept, dc_hits = 1
\* and dc_misses = 3.
C19_VictimHasMinimumKey ==
    /\ EvictedFromFull =>
          /\ bench.evicted = bench.blocks[Min(MinimumSlots)]
          /\ bench.left = [bench.blocks EXCEPT ![Min(MinimumSlots)] = None]
    /\ (bench.kind = "evict" /\ bench.done /\ ~is_full(bench.blocks)) =>
          (bench.evicted = None /\ bench.left = bench.blocks)
    /\ TwoWayRun =>
          /\ output.dc_hits = 1 /\ output.dc_misses = 3
          /\ {Unwrap(dc.cache.sets[1][k]).tag : k \in Present(dc.cache.sets[1])} = {0, 2}
          /\ {b.tag : b \in Removed(probe.dc[1], dc.cache.sets[1])} = {1}

\* C19 witness: under FIFO, two blocks of a full set shared the smallest
\* first_access, the one in the higher slot having the smaller last_access,
\* and the block in the lower slot was evicted.
C19_TieGoesToLowestSlot ==
    /\ EvictedFromFull
    /\ bench.policy = "FIFO"
    /\ Cardinality(MinimumSlots) = 2
    /\ Min(MinimumSlots) > 1
    /\ \E k \in MinimumSlots :
          /\ k > Min(MinimumSlots)
          /\ Unwrap(bench.blocks[k]).last_access
                < Unwrap(bench.blocks[Min(MinimumSlots)]).last_access
    /\ bench.evicted = bench.blocks[Min(MinimumSlots)]

\* The trace W:00, R:00 was served by the write-through L1 of a single line.
WriteThroughRun ==
    /\ config = Config(SingleLineGeometry, FALSE, FALSE, FALSE, TRUE, FALSE)
    /\ served = << from_buffer("W", <<0, 0>>), from_buffer("R", <<0, 0>>) >>

\* C20: an access whose line is not in L1 is reported a miss; a write miss in
\* a write-through L1 leaves the contents of L1 as they were, a write miss in
\* a write-back L1 leaves the line resident and dirty, and a read miss leaves
\* the line resident; so the write-through L1 of a single line ends the trace
\* W:00, R:00 with dc_hits = 0 and dc_misses = 2.
C20_MissFollowsWritePolicy ==
    /\ (Len(output.accesses) > 0 /\ ~WasInL1) =>
          /\ ~LastRecord.dc_hit
          /\ IF is_write(LastRecord.access)
             THEN IF is_write_through(config.data_cache)
                  THEN dc.cache.sets = probe.dc
                  ELSE \E k \in LinesOf(dc.cache.sets, LastRecord.dc_address) :
                          Unwrap(dc.cache.sets[LastRecord.dc_address.index + 1][k]).dirty
             ELSE LinesOf(dc.cache.sets, LastRecord.dc_address) # {}
    /\ WriteThroughRun => (output.dc_hits = 0 /\ output.dc_misses = 2)

\* C20 witness: the write missed and left the single line empty, and the read
\* of the same line missed and filled it.
C20_WriteLeftLineOut ==
    /\ WriteThroughRun
    /\ ~panicked
    /\ ~output.accesses[1].dc_hit /\ ~output.accesses[2].dc_hit
    /\ Present(probe.dc[1]) = {}
    /\ Present(dc.cache.sets[1]) = {1}

\* C21: with virtual addressing disabled, whatever the TLB-enabled flag, every
\* access uses the trace address as its physical address, the TLB and the page
\* table stay as they were built, and tlb_hits, tlb_misses, pt_hits and
\* pt_faults stay 0.
C21_PhysicalRunLeavesTranslationAlone ==
    ~config.virtual_addresses_enabled =>
        /\ \A i \in DOMAIN output.accesses :
              output.accesses[i].physical_address = output.accesses[i].access.address
        /\ page_table = None
        /\ tlb = IF config.tlb_enabled THEN Some(TLBFromConfig(config)) ELSE None
        /\ output.tlb_hits = 0 /\ output.tlb_misses = 0
        /\ output.pt_hits = 0 /\ output.pt_faults = 0

\* The latest translate call on the bench table: its virtual page, whether the
\* page is one of the table's, its time, and the entry and frame it ended on.
CalledPage == bench.vaddr \div bench.pt.page_size

CalledInRange ==
    /\ bench.kind = "translate"
    /\ bench.called
    /\ CalledPage < bench.pt.virtual_pages

CalledAt == bench.t - 1

CalledEntry == Unwrap(bench.pt.entries[CalledPage + 1])

\* The frame a page-table entry references, by division.
FrameOfEntry(e) == e.physical_address \div e.page_size

\* The pages the table mapped before the latest call.
MappedBefore == {i \in DOMAIN bench.before.entries : IsSome(bench.before.entries[i])}

\* C22: translate on an in-range page reports hit exactly when the page had
\* an entry before the call and otherwise gives it one first; the address
\* returned is the base of the entry's frame plus the page offset of the
\* virtual address, the frame being one of the table's; afterwards the entry
\* and the bookkeeping of its frame both carry the time of the call.
C22_TranslateRefreshesEntry ==
    CalledInRange =>
        /\ ~bench.panic
        /\ IsSome(bench.result)
        /\ Unwrap(bench.result).hit = ((CalledPage + 1) \in MappedBefore)
        /\ IsSome(bench.pt.entries[CalledPage + 1])
        /\ Unwrap(bench.result).hit =>
              FrameOfEntry(CalledEntry)
                = FrameOfEntry(Unwrap(bench.before.entries[CalledPage + 1]))
        /\ FrameOfEntry(CalledEntry) < bench.pt.physical_pages
        /\ CalledEntry.physical_address % bench.pt.page_size = 0
        /\ Unwrap(bench.result).physical_address
              = FrameOfEntry(CalledEntry) * bench.pt.page_size
                  + (bench.vaddr % bench.pt.page_size)
        /\ CalledEntry.last_access_time = CalledAt
        /\ bench.pt.physical_page_bookkeeping[FrameOfEntry(CalledEntry) + 1] = CalledAt

\* C22 witness: the fourth call hit a page of the two-frame table at an odd
\* address, after the table had filled.
C22_HitAfterFill ==
    /\ CalledInRange
    /\ CalledAt = 4
    /\ bench.pt.physical_pages = 2
    /\ Cardinality(MappedBefore) = 2
    /\ Unwrap(bench.result).hit
    /\ bench.vaddr % 2 = 1
    /\ FrameOfEntry(CalledEntry) = 1

\* The frames of the bench table that were free before the latest call, and
\* the frames in use whose bookkeeping time was the least.
FreeBefore ==
    {f \in 0..(bench.before.physical_pages - 1) :
        bench.before.physical_page_bookkeeping[f + 1] = 0}

OldestBefore ==
    {f \in 0..(bench.before.physical_pages - 1) :
        \A g \in 0..(bench.before.physical_pages - 1) :
            bench.before.physical_page_bookkeeping[f + 1]
              <= bench.before.physical_page_bookkeeping[g + 1]}

\* The pages mapped before the latest call that it left without an entry.
Unmapped == {i \in MappedBefore : ~IsSome(bench.pt.entries[i])}

\* The latest call on the bench table was a page fault on an in-range page.
CalledFault == CalledInRange /\ (CalledPage + 1) \notin MappedBefore

\* C23: a page fault takes the lowest-numbered free frame when there is one
\* and then removes no mapping; when every frame is in use it reclaims the
\* frame with the least bookkeeping time, whose entry, the only one on that
\* frame, is cleared, and gives that frame to the faulting page.
C23_FaultTakesFreeOrOldest ==
    CalledFault =>
        IF FreeBefore # {}
        THEN /\ FrameOfEntry(CalledEntry) = Min(FreeBefore)
             /\ Unmapped = {}
        ELSE /\ Cardinality(OldestBefore) = 1
             /\ FrameOfEntry(CalledEntry) \in OldestBefore
             /\ Cardinality(Unmapped) = 1
             /\ \A i \in MappedBefore :
                   (i \in Unmapped) <=>
                      (FrameOfEntry(Unwrap(bench.before.entries[i]))
                         = FrameOfEntry(CalledEntry))

\* C23 witness: with both frames in use, frame 1 the longer untouched, a fault
\* reclaimed frame 1 and unmapped its page.
C23_OldestFrameReclaimed ==
    /\ CalledFault
    /\ bench.pt.physical_pages = 2
    /\ FreeBefore = {}
    /\ OldestBefore = {1}
    /\ FrameOfEntry(CalledEntry) = 1
    /\ Cardinality(Unmapped) = 1

\* The caches built from a configuration.
CachesFrom(cfg) ==
    {DataCacheFromConfig(cfg).cache, L2CacheFromConfig(cfg).cache,
     TLBFromConfig(cfg).cache}

DcRecords(hit) == {i \in DOMAIN output.accesses : output.accesses[i].dc_hit = hit}

\* C25: every processed access counts once as an L1 hit or once as an L1
\* miss, as its record says, so dc_hits + dc_misses is the number of
\* processed accesses under every policy combination, the write-back pair
\* that accesses L1 twice included.
C25_OneL1CountPerAccess ==
    /\ output.dc_hits + output.dc_misses = Len(output.accesses)
    /\ Len(output.accesses) = Len(served)
    /\ output.dc_hits = Cardinality(DcRecords(TRUE))
    /\ output.dc_misses = Cardinality(DcRecords(FALSE))

\* C25 witness: write-back L1 over write-back L2 has served a write that
\* missed L1, so L1 was accessed a second time, after an earlier hit.
C25_L1AccessedTwice ==
    /\ IsSome(l2)
    /\ RepeatsL1(config)
    /\ Len(served) >= 2
    /\ is_write(served[Len(served)])
    /\ ~LastRecord.dc_hit
    /\ output.dc_hits >= 1
    /\ output.dc_misses >= 1

\* C26: an address below 2^32 split into tag, index and offset under a
\* geometry of at most 32 index and offset bits is put together again by
\* (tag << (index_bits + offset_bits)) | (index << offset_bits) | offset, and
\* each field fits its width: index_bits, offset_bits and the tag_bits left.
\* Every address drawn is below 2^31, so a tag width of 31 or more holds it.
C26_DecodeRoundTrip ==
    (bench.kind = "address" /\ IsSome(bench.decoded)) =>
        LET a == Unwrap(bench.decoded)
            width == tag_bits(bench.index_bits, bench.offset_bits)
        IN  /\ bench.rebuilt = Some(bench.address)
            /\ BitOr(BitOr(Shl(a.tag, bench.index_bits + bench.offset_bits),
                            Shl(a.index, bench.offset_bits)), a.offset) = bench.address
            /\ a.index < Pow2(bench.index_bits)
            /\ a.offset < Pow2(bench.offset_bits)
            /\ width >= 0
            /\ (width >= 31 \/ a.tag < Pow2(width))

\* C26 witness: an address with a bit in each of the three fields was split
\* and put together again.
C26_ThreeFieldsRebuilt ==
    /\ bench.kind = "address"
    /\ IsSome(bench.decoded)
    /\ Unwrap(bench.decoded).tag > 0
    /\ Unwrap(bench.decoded).index > 0
    /\ Unwrap(bench.decoded).offset > 0
    /\ bench.address >= Pow2(10)
    /\ bench.rebuilt = Some(bench.address)

\* The scenario operations whose virtual page is outside the page table.
OutOfRangeOperations ==
    {access \in ScenarioOperations :
        to_page_number(config, access.address) >= config.page_table.number_of_virtual_pages}

\* C27: translate returns None exactly when the virtual page number of the
\* address is at or beyond virtual_pages, and then leaves the page table,
\* entries, bookkeeping and allocated count, as it was; the simulator panics
\* on such an access, so no operation with such a page is ever served.
C27_NoneOnlyOutOfRange ==
    /\ (bench.kind = "translate" /\ bench.called) =>
          /\ ~bench.panic
          /\ (bench.result = None) <=> (CalledPage >= bench.pt.virtual_pages)
          /\ (bench.result = None) => (bench.pt = bench.before)
    /\ (bench = NoBench /\ ~panicked) =>
          /\ \A access \in OutOfRangeOperations : SimulateAccess(Sim, access).panic
          /\ \A i \in DOMAIN served : served[i] \notin OutOfRangeOperations
          /\ Len(output.accesses) = Len(served)

\* C27 witness: the third call on the two-frame table, both frames in use,
\* asked for a page beyond the table and got None.
C27_NoneBeyondTable ==
    /\ bench.kind = "translate"
    /\ bench.called
    /\ CalledAt = 3
    /\ bench.before.physical_pages = 2
    /\ Cardinality(MappedBefore) = 2
    /\ CalledPage >= bench.pt.virtual_pages
    /\ bench.result = None
    /\ bench.pt = bench.before

\* n is a power of two.
IsPowerOfTwo(n) == n > 0 /\ Pow2(trailing_zeros(n)) = n

\* The numbers of the loaded configuration file that are not powers of two.
OddGeometry ==
    {digits \in NumbersOf(bench.file) :
        parses_decimal(digits) /\ ~IsPowerOfTwo(get_decimal(digits))}

\* C28: a configuration file with a geometry number that is not a power of
\* two is rejected when it is loaded, and no simulator is built from it.
C28_OddGeometryRejected ==
    (bench.kind = "config" /\ bench.loaded /\ OddGeometry # {}) =>
        (bench.panic /\ bench.simulator = None)

\* A trace line is malformed: no colon, an address that is no hexadecimal
\* number, or an access type other than R and W.
Malformed(line) ==
    \/ ~line.colon
    \/ ~parses_hexadecimal(line.digits)
    \/ line.access_type \notin {"R", "W"}

\* The malformed lines of the trace file read, by position.
MalformedLines == {k \in DOMAIN bench.lines : Malformed(bench.lines[k])}

\* The operations of the first n lines of the trace file read.
ParsedBefore(n) ==
    [k \in 1..n |-> from_buffer(bench.lines[k].access_type, bench.lines[k].digits)]

\* C29: reading a trace with a malformed line ends the trace at that line
\* without a panic, and the operations of the lines before it are the trace
\* that is simulated.
C29_MalformedLineEndsTrace ==
    (bench.kind = "trace" /\ bench.read /\ MalformedLines # {}) =>
        /\ ~bench.panic
        /\ bench.operations = ParsedBefore(Min(MalformedLines) - 1)
        /\ \A i \in DOMAIN served : served[i] = bench.operations[i]

\* The outcome r of an allocate-and-report call on the L1 set of block
\* address a, as the set stands: the retry did not fail, the answer is whether
\* the set held the line before the call, and the set holds it afterwards.
ReportsResidency(r, a) ==
    /\ r.ok
    /\ r.hit = (LinesOf(dc.cache.sets, a) # {})
    /\ \E k \in Present(r.blocks) : Unwrap(r.blocks[k]).tag = a.tag

\* The L1 block addresses of the scenario trace lines.
ScenarioLines ==
    {new_data_cache_address(access.address, config) : access \in ScenarioOperations}

\* C30: is_read_and_allocate_hit and is_write_and_allocate_hit answer true
\* exactly when the addressed line was in its set before the call, and after
\* the call, hit or miss, the line is in the set; so every read, and every
\* write of a write-allocate L1, is reported a hit exactly when L1 held the
\* line and leaves the line in L1.
C30_AllocateReportsPriorResidency ==
    /\ \A a \in ScenarioLines :
          InRange(dc.cache, a) =>
             /\ ReportsResidency(
                    is_read_and_allocate_hit(SetOf(dc.cache, a), a, time,
                        dc.cache.block_size, dc.cache.evict_policy), a)
             /\ ReportsResidency(
                    is_write_and_allocate_hit(SetOf(dc.cache, a), a, time,
                        dc.cache.block_size, dc.cache.evict_policy), a)
    /\ (Len(output.accesses) > 0
          /\ (is_read(LastRecord.access) \/ dc.is_write_allocate)) =>
             /\ LastRecord.dc_hit = WasInL1
             /\ LinesOf(dc.cache.sets, LastRecord.dc_address) # {}

\* C30 witness: after a hit, a write missed the full two-way set of the
\* write-allocate L1, was reported a miss and left its line in the set.
C30_MissAllocatedIntoFullSet ==
    /\ config = Config(TwoWayGeometry, FALSE, FALSE, FALSE, FALSE, FALSE)
    /\ Len(output.accesses) = 4
    /\ is_write(LastRecord.access)
    /\ dc.is_write_allocate
    /\ is_full(probe.dc[1])
    /\ ~WasInL1
    /\ ~LastRecord.dc_hit
    /\ output.dc_hits = 1
    /\ LinesOf(dc.cache.sets, LastRecord.dc_address) # {}

\* The outcome r of an allocating call at time t on the set before, for a
\* line a the set did not hold: at most one block left the set, and only a
\* full set lost one; the block returned is the one that left; the set now
\* holds one block of the line, stamped t in both fields and dirty as given.
AllocatedOnMiss(before, r, a, t, dirty) ==
    /\ Cardinality(Removed(before, r.blocks)) <= 1
    /\ ~is_full(before) => (Removed(before, r.blocks) = {} /\ r.evicted = None)
    /\ is_full(before) =>
          (IsSome(r.evicted) /\ Removed(before, r.blocks) = {Unwrap(r.evicted)})
    /\ Cardinality(SlotsWithTag(r.blocks, a.tag)) = 1
    /\ \A k \in SlotsWithTag(r.blocks, a.tag) :
          /\ Unwrap(r.blocks[k]).tag = a.tag
          /\ Unwrap(r.blocks[k]).index = a.index
          /\ Unwrap(r.blocks[k]).first_access = t
          /\ Unwrap(r.blocks[k]).last_access = t
          /\ Unwrap(r.blocks[k]).dirty = dirty

\* The L1 set the latest access addressed, before the access and after it.
SetBefore == probe.dc[LastRecord.dc_address.index + 1]

SetAfter == dc.cache.sets[LastRecord.dc_address.index + 1]

\* C31: on a miss at time t, read_and_allocate and write_and_allocate remove
\* at most one block from the addressed set, and only from a full set; the
\* new block has the tag and index of the address, first_access = last_access
\* = t, and is dirty exactly for a write; the block returned is the one
\* removed, None when nothing was.
C31_MissAllocatesOneBlock ==
    /\ \A a \in ScenarioLines :
          (InRange(dc.cache, a) /\ LinesOf(dc.cache.sets, a) = {}) =>
             /\ AllocatedOnMiss(SetOf(dc.cache, a),
                    read_and_allocate(SetOf(dc.cache, a), a, time,
                        dc.cache.block_size, dc.cache.evict_policy),
                    a, time, FALSE)
             /\ AllocatedOnMiss(SetOf(dc.cache, a),
                    write_and_allocate(SetOf(dc.cache, a), a, time,
                        dc.cache.block_size, dc.cache.evict_policy),
                    a, time, TRUE)
    /\ (Len(output.accesses) > 0 /\ ~WasInL1
          /\ (is_read(LastRecord.access) \/ dc.is_write_allocate)) =>
             /\ Cardinality(Removed(SetBefore, SetAfter)) <= 1
             /\ ~is_full(SetBefore) => Removed(SetBefore, SetAfter) = {}
             /\ \A k \in LinesOf(dc.cache.sets, LastRecord.dc_address) :
                   /\ Unwrap(SetAfter[k]).first_access = time - 1
                   /\ Unwrap(SetAfter[k]).last_access = time - 1
                   /\ Unwrap(SetAfter[k]).dirty = is_write(LastRecord.access)

\* C31 witness: the third access, a read, missed the full two-way set: one
\* block left it and the new block is clean and stamped 3 in both fields.
C31_ReadMissReplacedOne ==
    /\ config = Config(TwoWayGeometry, FALSE, FALSE, FALSE, FALSE, FALSE)
    /\ Len(output.accesses) = 3
    /\ is_read(LastRecord.access)
    /\ ~WasInL1
    /\ is_full(SetBefore)
    /\ Cardinality(Removed(SetBefore, SetAfter)) = 1
    /\ \E k \in LinesOf(dc.cache.sets, LastRecord.dc_address) :
          /\ Unwrap(SetAfter[k]).first_access = 3
          /\ Unwrap(SetAfter[k]).last_access = 3
          /\ ~Unwrap(SetAfter[k]).dirty

\* The records of accesses that came right after an access to the same
\* virtual page.
RepeatedPage ==
    {n \in 2..Len(output.accesses) :
        output.accesses[n].virtual_page_number = output.accesses[n - 1].virtual_page_number}

\* C32: with virtual addressing and the TLB enabled, an access to the virtual
\* page of the access right before it is reported a TLB hit, whatever the two
\* page offsets and whether or not the first access page-faulted.
C32_RepeatedPageHitsTlb ==
    (config.virtual_addresses_enabled /\ config.tlb_enabled) =>
        \A n \in RepeatedPage : output.accesses[n].tlb_hit = Some(TRUE)

\* The blocks of the sets before that lie outside physical page p are all in
\* the sets after, in their slots, as they were.
OtherPagesKept(before, after, section, p, page_size) ==
    \A i \in DOMAIN before : \A k \in Present(before[i]) :
        (BlockBase(Unwrap(before[i][k]).tag, i, section.number_of_sets,
                   section.line_size) \div page_size # p)
            => after[i][k] = before[i][k]

\* A step serving an access that page-faulted on frame p: the propagation of
\* the fault left every L1 and L2 block outside page p where it was, with its
\* stamps and its dirty flag.
FaultSparesOtherFrames ==
    (Len(output'.accesses) = Len(output.accesses) + 1 /\ probe'.is_page_fault) =>
        /\ OtherPagesKept(dc.cache.sets, probe'.dc, config.data_cache,
                          probe'.physical_address \div get_page_size(config),
                          get_page_size(config))
        /\ IsSome(l2) =>
              OtherPagesKept(Unwrap(l2).cache.sets, probe'.l2, config.l2_cache,
                             probe'.physical_address \div get_page_size(config),
                             get_page_size(config))

\* C33: the propagation of a page fault given frame p removes from L1 and L2
\* only blocks whose physical address lies in page p; the blocks of every
\* other frame stay resident with stamps and dirty flags unchanged.
C33_FaultRemovesOnlyItsFrame == [][FaultSparesOtherFrames]_vars

\* The operations whose virtual page the page table does not have: the
\* accesses on which translation panics.
BeyondPageTable ==
    IF config.virtual_addresses_enabled
    THEN {access \in FrameOperations :
            to_page_number(config, access.address)
                >= config.page_table.number_of_virtual_pages}
    ELSE {}

\* C34: with write-back L1 over write-back L2, the assertion that the second
\* L1 access of a step hits never fails: no read and no write of a page the
\* page table has panics, in any reachable state, and after an access that
\* missed L1 or wrote, the line it addressed is resident in L1.
C34_SecondL1AccessHits ==
    (IsSome(l2) /\ RepeatsL1(config) /\ ~panicked) =>
        /\ time <= FrameLen =>
              \A access \in FrameOperations \ BeyondPageTable :
                  ~SimulateAccess(Sim, access).panic
        /\ Len(output.accesses) > 0 =>
              LinesOf(dc.cache.sets, LastRecord.dc_address) # {}

\* C34 witness: write-back L1 over write-back L2 served, as its third access,
\* a read that page-faulted and missed L1 and L2, and the line is resident in
\* L1.
C34_ReadMissRepeatedInL1 ==
    /\ IsSome(l2)
    /\ RepeatsL1(config)
    /\ ~panicked
    /\ Len(served) = 3
    /\ is_read(served[3])
    /\ probe.is_page_fault
    /\ ~LastRecord.dc_hit
    /\ LastRecord.l2_hit = Some(FALSE)
    /\ LinesOf(dc.cache.sets, LastRecord.dc_address) # {}

\* C35: under virtual addressing, with the TLB enabled tlb_hits + tlb_misses
\* is the number of accesses and tlb_misses = pt_hits + pt_faults, the page
\* table being counted only on reported TLB misses; with the TLB disabled
\* tlb_hits = tlb_misses = 0 and pt_hits + pt_faults is the number of accesses.
C35_TranslationCountersAgree ==
    config.virtual_addresses_enabled =>
        IF config.tlb_enabled
        THEN /\ output.tlb_hits + output.tlb_misses = Len(output.accesses)
             /\ output.tlb_misses = output.pt_hits + output.pt_faults
             /\ output.tlb_hits
                   = Cardinality({n \in DOMAIN output.accesses :
                                     output.accesses[n].tlb_hit = Some(TRUE)})
        ELSE /\ output.tlb_hits = 0
             /\ output.tlb_misses = 0
             /\ output.pt_hits + output.pt_faults = Len(output.accesses)

\* C35 witness: with the TLB enabled, three accesses were a page fault, a TLB
\* miss that hit the page table, and a TLB hit.
C35_FaultMissAndHit ==
    /\ config.virtual_addresses_enabled
    /\ config.tlb_enabled
    /\ Len(output.accesses) = 3
    /\ output.tlb_hits = 1
    /\ output.tlb_misses = 2
    /\ output.pt_hits = 1
    /\ output.pt_faults = 1

\* The configuration with the write policy of its L2 section changed.
OtherL2Policy(cfg) == [cfg EXCEPT !.l2_cache.write_through = ~@]

\* The main-memory references printed by a run of the operations served under
\* cfg.
MainMemoryRefsUnder(cfg) ==
    LET Printed(s) == DisplayMainMemoryRefs(s.output, s.config)
    IN  Printed(Replay(SimulatorFrom(cfg), served, 1))

\* C36: with the L2 cache disabled, the run of the same operations under the
\* configuration that differs only in the L2 write-through flag prints the
\* same number of main-memory references.
C36_UnusedL2PolicyNotReported ==
    (~config.l2_cache_enabled /\ ~panicked /\ bench = NoBench) =>
        MainMemoryRefsUnder(OtherL2Policy(config)) = DisplayMainMemoryRefs(output, config)

\* The tags of the blocks a set holds.
TagsOf(blocks) == {Unwrap(blocks[k]).tag : k \in Present(blocks)}

\* C37: in L1, L2 and the TLB no two present blocks of a set carry the same
\* tag: each tag held is held by one slot, so the lookup by tag finds that
\* block and evict_tag of the tag leaves no block with the tag behind.
C37_TagsUniquePerSet ==
    \A cache \in Hierarchy :
        \A i \in DOMAIN cache.sets :
            /\ \A j, k \in Present(cache.sets[i]) :
                   Unwrap(cache.sets[i][j]).tag = Unwrap(cache.sets[i][k]).tag => j = k
            /\ \A tag \in TagsOf(cache.sets[i]) :
                   /\ Cardinality(SlotsWithTag(cache.sets[i], tag)) = 1
                   /\ SlotsWithTag(evict_tag(cache.sets[i], tag).blocks, tag) = {}
                   /\ Cardinality(Present(evict_tag(cache.sets[i], tag).blocks))
                         = Cardinality(Present(cache.sets[i])) - 1

\* C37 witness: a two-way L1 set is full and the latest access hit one of its
\* two blocks.
C37_FullSetHitAgain ==
    /\ bench = NoBench
    /\ ~panicked
    /\ Len(output.accesses) = 3
    /\ LastRecord.dc_hit
    /\ Len(dc.cache.sets[1]) = 2
    /\ is_full(dc.cache.sets[1])
    /\ Cardinality(TagsOf(dc.cache.sets[1])) = 2

\* The virtual pages (1-based) whose present entry in pt references frame f.
OwnersOf(pt, f) ==
    {i \in DOMAIN pt.entries :
        IsSome(pt.entries[i]) /\ FrameOfEntry(Unwrap(pt.entries[i])) = f}

\* Every frame of pt is free with no owner or in use with one owner, and no
\* entry references a frame the table does not have.
FramesOwned(pt) ==
    /\ Len(pt.physical_page_bookkeeping) = pt.physical_pages
    /\ \A f \in 0..(pt.physical_pages - 1) :
          /\ Cardinality(OwnersOf(pt, f)) <= 1
          /\ (pt.physical_page_bookkeeping[f + 1] # 0) <=> (Cardinality(OwnersOf(pt, f)) = 1)
    /\ \A i \in DOMAIN pt.entries :
          IsSome(pt.entries[i]) => FrameOfEntry(Unwrap(pt.entries[i])) < pt.physical_pages

\* C38: in every page-table state a frame has a bookkeeping time above 0
\* exactly when one present entry references it: no frame is in use without
\* an owner, none is shared, and none stays marked after its page is evicted.
C38_FrameInUseIffOwned ==
    /\ IsSome(page_table) => FramesOwned(Unwrap(page_table))
    /\ bench.kind = "translate" => FramesOwned(bench.pt)

\* C38 witness: a fault on the full two-frame table evicted a page; both
\* frames are in use again, each with one owner, and the evicted page has no
\* entry.
C38_OwnedAfterEviction ==
    /\ CalledFault
    /\ ~bench.panic
    /\ bench.pt.physical_pages = 2
    /\ FreeBefore = {}
    /\ Cardinality(Unmapped) = 1
    /\ \A f \in 0..1 : /\ bench.pt.physical_page_bookkeeping[f + 1] # 0
                       /\ Cardinality(OwnersOf(bench.pt, f)) = 1

\* The latest call on the bench table hit: its page was in range and mapped.
CalledHit == CalledInRange /\ (CalledPage + 1) \in MappedBefore

\* C39: a translate that hits on page v leaves the table as it was but for
\* the last_access_time of v's entry and the bookkeeping time of v's frame,
\* which take the time of the call: the mapped pages and their frames, the
\* other entries, the other frames and the counters are unchanged.
C39_HitChangesNoMapping ==
    CalledHit =>
        /\ ~bench.panic
        /\ {i \in DOMAIN bench.pt.entries : IsSome(bench.pt.entries[i])} = MappedBefore
        /\ \A i \in MappedBefore :
              FrameOfEntry(Unwrap(bench.pt.entries[i]))
                = FrameOfEntry(Unwrap(bench.before.entries[i]))
        /\ bench.pt =
              [bench.before EXCEPT
                  !.entries[CalledPage + 1] =
                      Some([Unwrap(bench.before.entries[CalledPage + 1]) EXCEPT
                               !.last_access_time = CalledAt]),
                  !.physical_page_bookkeeping[
                      FrameOfEntry(Unwrap(bench.before.entries[CalledPage + 1])) + 1] =
                      CalledAt]

\* C39 witness: with two pages mapped, a call hit the page on frame 1 at its
\* first byte, the other page having been touched since.
C39_HitOnSecondFrame ==
    /\ CalledHit
    /\ bench.pt.physical_pages = 2
    /\ Cardinality(MappedBefore) = 2
    /\ FrameOfEntry(CalledEntry) = 1
    /\ bench.vaddr % bench.pt.page_size = 0
    /\ bench.before.physical_page_bookkeeping[1] > bench.before.physical_page_bookkeeping[2]

\* C40: after every completed translate call, allocated_physical_pages is
\* the number of virtual pages with a present entry, and so is at most
\* physical_pages.
C40_CounterIsMappedPages ==
    (bench.kind = "translate" /\ bench.called /\ ~bench.panic) =>
        /\ bench.pt.allocated_physical_pages
              = Cardinality({i \in DOMAIN bench.pt.entries : IsSome(bench.pt.entries[i])})
        /\ bench.pt.allocated_physical_pages <= bench.pt.physical_pages

====
